---- MODULE Spec2Model ----
(***************************************************************************)
(* Model of the StockLambdaProducer repository.                            *)
(*                                                                         *)
(* Market-hours decision engine (src/src/market_hours.py): MarketHours     *)
(* classifies an instant against the weekday rule, the holiday tables and  *)
(* the 09:30-16:00 trading window of America/New_York, and projects the     *)
(* next opening instant by a day-by-day search.                            *)
(*                                                                         *)
(* A date is a record [year, month, day] as datetime.date; a time of day   *)
(* is counted in minutes since midnight; a datetime is                     *)
(* [date, minute, tz] where tz is [kind |-> "naive" | "aware", off] and    *)
(* off is the UTC offset in minutes of an aware value.                     *)
(*                                                                         *)
(* Producer handler (src/lambda_function.py): lambda_handler gates on the  *)
(* market hours, fetches one quote per configured symbol and publishes     *)
(* the records with one put_records call.                                  *)
(*                                                                         *)
(* Workflow controller (src/src/step_function_controller.py):              *)
(* lambda_handler lists the running executions of the state machine and    *)
(* starts one or stops the listed ones; invocations may overlap.           *)
(***************************************************************************)
EXTENDS Integers, Sequences, FiniteSets, TLC

\* ------------------------------------------------------------------------
\* Bounds of the model
\* ------------------------------------------------------------------------

\* reference instants are drawn from the calendar years FirstYear..LastYear
FirstYear == 2024
LastYear == 2025

\* wall-clock minutes of the reference instants: midnight, both sides of the
\* open and close boundaries, mid-session, late evening
TimesOfDay == {0, 9*60 + 29, 9*60 + 30, 14*60, 15*60 + 59, 16*60, 17*60, 23*60 + 59}

\* UTC offsets (minutes) of the timezone-aware reference instants:
\* US Pacific standard, US Eastern standard and daylight, UTC, Japan
Offsets == {-480, -300, -240, 0, 540}

\* ------------------------------------------------------------------------
\* datetime.date arithmetic (proleptic Gregorian calendar)
\* ------------------------------------------------------------------------

MinutesPerDay == 24 * 60

Date(y, m, d) == [year |-> y, month |-> m, day |-> d]

IsLeap(y) == (y % 4 = 0) /\ ((y % 100 # 0) \/ (y % 400 = 0))

DaysInMonth(y, m) ==
    IF m = 2 THEN (IF IsLeap(y) THEN 29 ELSE 28)
    ELSE IF m \in {4, 6, 9, 11} THEN 30 ELSE 31

DaysBeforeYear(y) ==
    (y - 1) * 365 + ((y - 1) \div 4) - ((y - 1) \div 100) + ((y - 1) \div 400)

DaysBeforeMonth(y, m) ==
    <<0, 31, 59, 90, 120, 151, 181, 212, 243, 273, 304, 334>>[m]
        + (IF m > 2 /\ IsLeap(y) THEN 1 ELSE 0)

\* date.toordinal(): 0001-01-01 is day 1
ToOrdinal(d) == DaysBeforeYear(d.year) + DaysBeforeMonth(d.year, d.month) + d.day

\* date.fromordinal()
FromOrdinal(n) ==
    LET y == CHOOSE yy \in (FirstYear - 1)..(LastYear + 2) :
                 DaysBeforeYear(yy) < n /\ n <= DaysBeforeYear(yy + 1)
        r == n - DaysBeforeYear(y)
        m == CHOOSE mm \in 1..12 :
                 DaysBeforeMonth(y, mm) < r /\ r <= DaysBeforeMonth(y, mm) + DaysInMonth(y, mm)
    IN  Date(y, m, r - DaysBeforeMonth(y, m))

\* date.weekday(): Monday = 0 .. Sunday = 6
Weekday(d) == (ToOrdinal(d) + 6) % 7

\* strftime('%A')
DayName(d) ==
    <<"Monday", "Tuesday", "Wednesday", "Thursday", "Friday", "Saturday", "Sunday">>[Weekday(d) + 1]

Pad2(n) == IF n < 10 THEN "0" \o ToString(n) ELSE ToString(n)

\* strftime('%Y-%m-%d')
FormatDate(d) == ToString(d.year) \o "-" \o Pad2(d.month) \o "-" \o Pad2(d.day)

\* str(datetime.time(h, m))
FormatTime(t) == Pad2(t.hour) \o ":" \o Pad2(t.minute) \o ":00"

\* the n-th Sunday of month m of year y
NthSunday(y, m, n) ==
    LET first == 1 + ((6 - Weekday(Date(y, m, 1))) % 7)
    IN  Date(y, m, first + 7 * (n - 1))

\* ------------------------------------------------------------------------
\* datetime values and the America/New_York zone
\* ------------------------------------------------------------------------

Naive == [kind |-> "naive", off |-> 0]
Aware(off) == [kind |-> "aware", off |-> off]

DateTime(d, minute, tz) == [date |-> d, minute |-> minute, tz |-> tz]

\* minutes since 0001-01-01T00:00 shown by the wall-clock fields
WallMinutes(dt) == (ToOrdinal(dt.date) - 1) * MinutesPerDay + dt.minute

\* the instant of an aware datetime, in minutes of UTC
UtcMinutes(dt) == WallMinutes(dt) - dt.tz.off

\* the aware datetime that shows instant u (minutes of UTC) at offset off
AtOffset(u, off) ==
    LET w == u + off
    IN  DateTime(FromOrdinal((w \div MinutesPerDay) + 1), w % MinutesPerDay, Aware(off))

EST == -300
EDT == -240

\* US daylight time runs from the second Sunday of March, 02:00 EST, to the
\* first Sunday of November, 02:00 EDT
DstStartUtc(y) == WallMinutes(DateTime(NthSunday(y, 3, 2), 2 * 60, Naive)) - EST
DstEndUtc(y) == WallMinutes(DateTime(NthSunday(y, 11, 1), 2 * 60, Naive)) - EDT

\* utcoffset of America/New_York at instant u
MarketOffsetAt(u) ==
    LET y == FromOrdinal((u \div MinutesPerDay) + 1).year
    IN  IF DstStartUtc(y) <= u /\ u < DstEndUtc(y) THEN EDT ELSE EST

\* variant: a naive datetime is taken as UTC and converted
Localize_AssumesUtc(dt) ==
    LET u == WallMinutes(dt) IN AtOffset(u, MarketOffsetAt(u))

\* market_timezone.localize(naive): the wall-clock fields are kept; an
\* ambiguous or non-existent wall time takes standard time (is_dst=False)
Localize(dt) ==
    LET y == dt.date.year
        w == WallMinutes(dt)
        off == IF    w >= WallMinutes(DateTime(NthSunday(y, 3, 2), 3 * 60, Naive))
                  /\ w < WallMinutes(DateTime(NthSunday(y, 11, 1), 1 * 60, Naive))
               THEN EDT ELSE EST
    IN  DateTime(dt.date, dt.minute, Aware(off))

\* variant: the market zone is attached to the fields without converting
\* (replace(tzinfo=...) in place of astimezone)
AsMarketTimezone_KeepsFields(dt) ==
    LET w == WallMinutes(dt) IN AtOffset(w - EST, EST)

\* aware.astimezone(market_timezone)
AsMarketTimezone(dt) ==
    LET u == UtcMinutes(dt) IN AtOffset(u, MarketOffsetAt(u))

\* the timezone branch shared by is_market_open and get_next_market_open
Normalize(dt) ==
    IF dt.tz.kind = "naive" THEN Localize(dt) ELSE AsMarketTimezone(dt)

\* ------------------------------------------------------------------------
\* MarketHours.__init__
\* ------------------------------------------------------------------------

market_open_time == [hour |-> 9, minute |-> 30]
market_close_time == [hour |-> 16, minute |-> 0]

TimeMinutes(t) == t.hour * 60 + t.minute

market_holidays_2024 ==
    << Date(2024, 1, 1), Date(2024, 1, 15), Date(2024, 2, 19), Date(2024, 3, 29),
       Date(2024, 5, 27), Date(2024, 6, 19), Date(2024, 7, 4), Date(2024, 9, 2),
       Date(2024, 11, 28), Date(2024, 12, 25) >>

market_holidays_2025 ==
    << Date(2025, 1, 1), Date(2025, 1, 20), Date(2025, 2, 17), Date(2025, 4, 18),
       Date(2025, 5, 26), Date(2025, 6, 19), Date(2025, 7, 4), Date(2025, 9, 1),
       Date(2025, 11, 27), Date(2025, 12, 25) >>

\* ------------------------------------------------------------------------
\* MarketHours: pure operations
\* ------------------------------------------------------------------------

\* variant: the table entry (a datetime at midnight) is compared with the
\* whole datetime instead of with its date
is_market_holiday_ComparesDatetime(dt) ==
    /\ dt.minute = 0
    /\ \/ \E i \in 1..Len(market_holidays_2024) : market_holidays_2024[i] = dt.date
       \/ \E i \in 1..Len(market_holidays_2025) : market_holidays_2025[i] = dt.date

is_market_holiday(dt) ==
    \/ \E i \in 1..Len(market_holidays_2024) : market_holidays_2024[i] = dt.date
    \/ \E i \in 1..Len(market_holidays_2025) : market_holidays_2025[i] = dt.date

\* variant: Saturday counted as a weekday
is_weekday_SaturdayIncluded(dt) == Weekday(dt.date) < 6

is_weekday(dt) == Weekday(dt.date) < 5

WeekendReason(dayname) == "Market closed: Weekend (" \o dayname \o ")"
HolidayReason(datestr) == "Market closed: Holiday (" \o datestr \o ")"
BeforeOpenReason ==
    "Market closed: Before opening hours (opens at " \o FormatTime(market_open_time) \o ")"
AfterCloseReason ==
    "Market closed: After closing hours (closed at " \o FormatTime(market_close_time) \o ")"
OpenReason == "Market open: Regular trading hours"

Status(open, reason) == [is_open |-> open, reason |-> reason]

\* variant: the close boundary is inclusive
is_market_open_CloseInclusive(ref) ==
    LET current_time == Normalize(ref) IN
    IF ~is_weekday(current_time)
    THEN Status(FALSE, WeekendReason(DayName(current_time.date)))
    ELSE IF is_market_holiday(current_time)
    THEN Status(FALSE, HolidayReason(FormatDate(current_time.date)))
    ELSE IF current_time.minute < TimeMinutes(market_open_time)
    THEN Status(FALSE, BeforeOpenReason)
    ELSE IF current_time.minute > TimeMinutes(market_close_time)
    THEN Status(FALSE, AfterCloseReason)
    ELSE Status(TRUE, OpenReason)

\* variant: the trading window is tested before the holiday table
is_market_open_HoursBeforeHoliday(ref) ==
    LET current_time == Normalize(ref) IN
    IF ~is_weekday(current_time)
    THEN Status(FALSE, WeekendReason(DayName(current_time.date)))
    ELSE IF current_time.minute < TimeMinutes(market_open_time)
    THEN Status(FALSE, BeforeOpenReason)
    ELSE IF current_time.minute >= TimeMinutes(market_close_time)
    THEN Status(FALSE, AfterCloseReason)
    ELSE IF is_market_holiday(current_time)
    THEN Status(FALSE, HolidayReason(FormatDate(current_time.date)))
    ELSE Status(TRUE, OpenReason)

is_market_open(ref) ==
    LET current_time == Normalize(ref) IN
    IF ~is_weekday(current_time)
    THEN Status(FALSE, WeekendReason(DayName(current_time.date)))
    ELSE IF is_market_holiday(current_time)
    THEN Status(FALSE, HolidayReason(FormatDate(current_time.date)))
    ELSE IF current_time.minute < TimeMinutes(market_open_time)
    THEN Status(FALSE, BeforeOpenReason)
    ELSE IF current_time.minute >= TimeMinutes(market_close_time)
    THEN Status(FALSE, AfterCloseReason)
    ELSE Status(TRUE, OpenReason)

\* ------------------------------------------------------------------------
\* Producer: fetch_stock_prices and send_to_kinesis (src/lambda_function.py)
\* ------------------------------------------------------------------------

\* the symbol lists of Config are prefixes of the default list, up to
\* MaxSymbols symbols
MaxSymbols == 2

DefaultSymbols == <<"AAPL", "GOOGL", "MSFT", "AMZN", "TSLA", "META", "NVDA", "NFLX">>

SymbolLists == { SubSeq(DefaultSymbols, 1, n) : n \in 0..MaxSymbols }

\* a JSON member: absent from the object, null, or a number
Absent == [tag |-> "absent", val |-> 0]
Null == [tag |-> "null", val |-> 0]
Num(v) == [tag |-> "num", val |-> v]

\* the quote object of a response: 'c', 'pc', 'h', 'l', 'o'
Quote(c, prev, h, l, o) == [c |-> c, pc |-> prev, h |-> h, l |-> l, o |-> o]

NoQuote == Quote(Absent, Absent, Absent, Absent, Absent)

\* what one requests.get(...) exchange does: requests.get raises
\* (request_error), raise_for_status raises (http_error), response.json()
\* raises (bad_json), or the body parses to a quote object (ok)
Response(kind, data) == [kind |-> kind, data |-> data]

Responses ==
    { Response("request_error", NoQuote),
      Response("http_error", NoQuote),
      Response("bad_json", NoQuote),
      Response("ok", NoQuote),
      Response("ok", Quote(Null, Absent, Absent, Absent, Absent)),
      Response("ok", Quote(Num(0), Num(0), Num(0), Num(0), Num(0))),
      Response("ok", Quote(Num(150), Num(145), Num(152), Num(149), Num(151))),
      Response("ok", Quote(Num(150), Num(160), Null, Absent, Num(151))),
      Response("ok", Quote(Num(150), Absent, Absent, Absent, Absent)),
      Response("ok", Quote(Num(150), Num(0), Num(152), Num(149), Num(151))),
      Response("ok", Quote(Num(150), Null, Num(152), Num(149), Num(151))) }

\* datetime.utcnow().isoformat(): the text is not interpreted by the code
UtcNowIso == "utcnow"

\* f"{x:.2f}" for x = num / den * 100, den > 0
FormatPercent(num, den) ==
    LET mag == IF num < 0 THEN 0 - num ELSE num
        hundredths == (2 * mag * 10000 + den) \div (2 * den)
    IN  (IF num < 0 THEN "-" ELSE "")
            \o ToString(hundredths \div 100) \o "." \o Pad2(hundredths % 100)

\* data.get(key, default)
GetOr(member, default) == IF member.tag = "absent" THEN Num(default) ELSE member

\* one iteration of the loop of fetch_stock_prices: the records appended for
\* one symbol (none when the exchange fails, the price is not valid, or the
\* arithmetic on a null previous close raises TypeError)
FetchOne(symbol, response) ==
    IF response.kind # "ok" THEN << >>
    ELSE LET data == response.data IN
         IF ~(data.c.tag = "num" /\ data.c.val > 0) THEN << >>
         ELSE LET current_price == data.c.val
                  previous_close == GetOr(data.pc, current_price)
              IN  IF previous_close.tag = "null" THEN << >>
                  ELSE LET change == current_price - previous_close.val
                       IN  << [ symbol |-> symbol,
                                price |-> current_price,
                                change |-> change,
                                change_percent |->
                                    IF previous_close.val > 0
                                    THEN FormatPercent(change, previous_close.val)
                                    ELSE "0.00",
                                high |-> GetOr(data.h, current_price),
                                low |-> GetOr(data.l, current_price),
                                open |-> GetOr(data.o, current_price),
                                previous_close |-> previous_close.val,
                                timestamp |-> UtcNowIso ] >>

RECURSIVE FetchFrom(_, _, _)
FetchFrom(symbols, responses, i) ==
    IF i > Len(symbols) THEN << >>
    ELSE FetchOne(symbols[i], responses[i]) \o FetchFrom(symbols, responses, i + 1)

\* fetch_stock_prices(symbols, api_key), responses[i] being the exchange for
\* symbols[i]
fetch_stock_prices(symbols, responses) == FetchFrom(symbols, responses, 1)

\* what kinesis_client.put_records does: raises, or answers with a
\* FailedRecordCount member (absent, or a count)
PutOutcome(raises, failed) == [raises |-> raises, FailedRecordCount |-> failed]

NoPut == PutOutcome("", Absent)

PutOutcomes(n) ==
    { PutOutcome("Kinesis error", Absent), PutOutcome("", Absent) }
        \cup { PutOutcome("", Num(k)) : k \in 0..n }

\* the Records send_to_kinesis builds
KinesisRecords(data) ==
    [ i \in 1..Len(data) |-> [Data |-> data[i], PartitionKey |-> data[i].symbol] ]

\* variant: the exception of put_records is logged and swallowed
send_to_kinesis_Swallows(data, outcome) ==
    IF outcome.raises # ""
    THEN [raised |-> "", logged |-> "error"]
    ELSE LET failed_count == GetOr(outcome.FailedRecordCount, 0).val
         IN  [raised |-> "", logged |-> IF failed_count > 0 THEN "warning" ELSE "info"]

\* variant: rejected records are escalated as an exception
send_to_kinesis_RaisesOnFailedRecords(data, outcome) ==
    IF outcome.raises # ""
    THEN [raised |-> outcome.raises, logged |-> "error"]
    ELSE LET failed_count == GetOr(outcome.FailedRecordCount, 0).val
         IN  IF failed_count > 0
             THEN [raised |-> "Failed to send records to Kinesis", logged |-> "error"]
             ELSE [raised |-> "", logged |-> "info"]

\* send_to_kinesis(stock_data, stream_name): the exception it raises to its
\* caller ("" when it returns) and the level of the line it logs
send_to_kinesis(data, outcome) ==
    IF outcome.raises # ""
    THEN [raised |-> outcome.raises, logged |-> "error"]
    ELSE LET failed_count == GetOr(outcome.FailedRecordCount, 0).val
         IN  [raised |-> "", logged |-> IF failed_count > 0 THEN "warning" ELSE "info"]

\* the values lambda_handler returns
SkippedResult(reason) ==
    [ statusCode |-> 200,
      body |-> [ message |-> "Execution skipped: " \o reason,
                 market_status |-> "closed",
                 timestamp |-> UtcNowIso ] ]

ProcessedResult(n, test_mode) ==
    [ statusCode |-> 200,
      body |-> [ message |-> "Successfully processed " \o ToString(n) \o " stock prices",
                 records_processed |-> n,
                 test_mode |-> test_mode,
                 timestamp |-> UtcNowIso ] ]

\* variant: the failure result reports a gateway error
ErrorResult_BadGateway(e) ==
    [ statusCode |-> 502, body |-> [error |-> e, timestamp |-> UtcNowIso] ]

\* variant: the failure result hides the exception's text
ErrorResult_HidesText(e) ==
    [ statusCode |-> 500, body |-> [error |-> "Internal error", timestamp |-> UtcNowIso] ]

ErrorResult(e) ==
    [ statusCode |-> 500, body |-> [error |-> e, timestamp |-> UtcNowIso] ]

NoResult == [ statusCode |-> 0, body |-> [timestamp |-> ""] ]

\* the fields of Config that lambda_handler reads; loaded is FALSE while
\* the handler has no Config object
Config(enforce, test, symbols) ==
    [ loaded |-> TRUE, enforce_market_hours |-> enforce, test_mode |-> test,
      stock_symbols |-> symbols ]

NoConfig ==
    [ loaded |-> FALSE, enforce_market_hours |-> FALSE, test_mode |-> FALSE,
      stock_symbols |-> << >> ]

\* variant: test mode does not lift the gate
GateApplies_IgnoresTestMode(cfg) == cfg.enforce_market_hours

\* line 31: config.enforce_market_hours and not config.test_mode
GateApplies(cfg) == cfg.enforce_market_hours /\ ~cfg.test_mode

\* variant: the publisher is called whatever the list holds
HasData_Always(data) == TRUE

\* line 54: if stock_data
HasData(data) == data # << >>

\* ------------------------------------------------------------------------
\* Controller: pure parts (src/src/step_function_controller.py)
\* ------------------------------------------------------------------------

MaxRunning == 2
MaxClockSec == 1

\* the controller invocations that may overlap
Invocations == {"A", "B"}

\* event.get('detail-type') decides the trigger source
Triggers == {"scheduled", "completion"}

\* the executions of the state machine that may be running beforehand
InitialExecutions == { "session-" \o ToString(k) : k \in 1..MaxRunning }

\* start_execution: the name is built from the whole seconds of utcnow()
SessionName(sec) == "market-session-" \o ToString(sec)

\* every execution name of the model, in the order list_executions reports
KnownExecutions ==
    [k \in 1..MaxRunning |-> "session-" \o ToString(k)]
        \o [k \in 1..(MaxClockSec + 1) |-> SessionName(k - 1)]

\* list_executions(statusFilter='RUNNING').get('executions', [])
ListExecutions(run) == SelectSeq(KnownExecutions, LAMBDA n : n \in run)

\* the instants at which the controller's MarketHours reads the clock: open
\* hours, after the close, a Saturday, a holiday
CtlInstants ==
    { Localize(DateTime(Date(2025, 3, 12), 14 * 60, Naive)),
      Localize(DateTime(Date(2025, 3, 12), 17 * 60, Naive)),
      Localize(DateTime(Date(2025, 3, 15), 14 * 60, Naive)),
      Localize(DateTime(Date(2025, 7, 4), 14 * 60, Naive)) }

\* variant: a running workflow is started once more while the market is open
Decision_RestartsWhenRunning(is_market_open_, is_currently_running) ==
    IF is_market_open_ THEN "started"
    ELSE IF is_currently_running THEN "stopped"
    ELSE "idle"

\* the decision logic: the value of action_taken
Decision(is_market_open_, is_currently_running) ==
    IF is_market_open_ /\ ~is_currently_running THEN "started"
    ELSE IF ~is_market_open_ /\ is_currently_running THEN "stopped"
    ELSE IF is_market_open_ /\ is_currently_running THEN "continued"
    ELSE "idle"

\* variant: only the first listed execution is stopped
StopTargets_FirstOnly(executions) == SubSeq(executions, 1, 1)

\* stop_running_executions: for execution in executions
StopTargets(executions) == executions

\* a workflow-control call and whether the service carried it out
Call(op, name, ok) == [op |-> op, name |-> name, ok |-> ok]

ArnNotSet == "STATE_MACHINE_ARN environment variable not set"
ListFailed == "list_executions failed"
StartFailed == "start_execution failed"
ExecutionAlreadyExists == "ExecutionAlreadyExists"

\* what start_execution raises for a name: a name already used is refused
StartOutcomes(name, used) ==
    IF name \in used THEN {ExecutionAlreadyExists} ELSE {"", StartFailed}

\* the controller's success result
CtlResult(trigger_source, st, n, action_taken) ==
    [ statusCode |-> 200,
      body |-> [ trigger_source |-> trigger_source,
                 market_open |-> st.is_open,
                 market_reason |-> st.reason,
                 running_executions |-> n,
                 action_taken |-> action_taken,
                 timestamp |-> UtcNowIso ] ]

\* variant: the failure result has no timestamp
CtlErrorResult_NoTimestamp(e) ==
    [ statusCode |-> 500, body |-> [error |-> e] ]

\* the controller's except clause
CtlErrorResult(e) ==
    [ statusCode |-> 500, body |-> [error |-> e, timestamp |-> UtcNowIso] ]

\* ------------------------------------------------------------------------
\* Config (src/src/config.py) and SecretsManager (src/secrets_manager.py):
\* pure parts
\* ------------------------------------------------------------------------

\* Python values beside Absent, Null and Num: a str is kept as the sequence
\* of its characters, so that split, strip, upper, lower and int work on it
Str(chars) == [tag |-> "str", val |-> chars]
Bool(b) == [tag |-> "bool", val |-> b]
List(items) == [tag |-> "list", val |-> items]

LowerCase == <<"a", "b", "c", "d", "e", "f", "g", "h", "i", "j", "k", "l", "m",
               "n", "o", "p", "q", "r", "s", "t", "u", "v", "w", "x", "y", "z">>
UpperCase == <<"A", "B", "C", "D", "E", "F", "G", "H", "I", "J", "K", "L", "M",
               "N", "O", "P", "Q", "R", "S", "T", "U", "V", "W", "X", "Y", "Z">>
Digits == <<"0", "1", "2", "3", "4", "5", "6", "7", "8", "9">>
Whitespace == {" ", "\t", "\n"}

\* the character that stands at c's place of table from in table to
MapChar(c, from, to) ==
    IF \E i \in 1..Len(from) : from[i] = c
    THEN to[CHOOSE i \in 1..Len(from) : from[i] = c]
    ELSE c

\* str.upper(), str.lower()
Upper(chars) == [i \in 1..Len(chars) |-> MapChar(chars[i], LowerCase, UpperCase)]
Lower(chars) == [i \in 1..Len(chars) |-> MapChar(chars[i], UpperCase, LowerCase)]

\* str.strip()
RECURSIVE LStrip(_)
LStrip(chars) ==
    IF chars # << >> /\ Head(chars) \in Whitespace THEN LStrip(Tail(chars)) ELSE chars

RECURSIVE RStrip(_)
RStrip(chars) ==
    IF chars # << >> /\ chars[Len(chars)] \in Whitespace
    THEN RStrip(SubSeq(chars, 1, Len(chars) - 1))
    ELSE chars

Strip(chars) == RStrip(LStrip(chars))

\* str.split(sep): the pieces from position i on, cur being the piece begun
RECURSIVE SplitFrom(_, _, _, _)
SplitFrom(chars, sep, i, cur) ==
    IF i > Len(chars) THEN << cur >>
    ELSE IF chars[i] = sep
    THEN << cur >> \o SplitFrom(chars, sep, i + 1, << >>)
    ELSE SplitFrom(chars, sep, i + 1, Append(cur, chars[i]))

Split(chars, sep) == SplitFrom(chars, sep, 1, << >>)

\* the characters as one string
RECURSIVE Text(_)
Text(chars) == IF chars = << >> THEN "" ELSE Head(chars) \o Text(Tail(chars))

\* the number a sequence of decimal digits writes
RECURSIVE DigitsValue(_)
DigitsValue(chars) ==
    IF chars = << >> THEN 0
    ELSE DigitsValue(SubSeq(chars, 1, Len(chars) - 1)) * 10
             + ((CHOOSE i \in 1..Len(Digits) : Digits[i] = chars[Len(chars)]) - 1)

\* int(value): a number is kept; a str is stripped and read as an optional
\* sign and decimal digits, and anything else raises ValueError
ParseInt(value) ==
    IF value.tag = "num" THEN [raised |-> "", val |-> value.val]
    ELSE LET body == Strip(value.val)
             negative == body # << >> /\ Head(body) = "-"
             signed == body # << >> /\ Head(body) \in {"-", "+"}
             digits == IF signed THEN Tail(body) ELSE body
         IN  IF    digits # << >>
                /\ \A i \in 1..Len(digits) : \E d \in 1..Len(Digits) : Digits[d] = digits[i]
             THEN [ raised |-> "",
                    val |-> IF negative THEN 0 - DigitsValue(digits) ELSE DigitsValue(digits) ]
             ELSE [ raised |-> "invalid literal for int() with base 10: '"
                                   \o Text(value.val) \o "'",
                    val |-> 0 ]

\* value.lower() in ('true', '1', 'yes', 'on') for a str; other values kept
ToBool(value) ==
    IF value.tag = "str"
    THEN Bool(Text(Lower(value.val)) \in {"true", "1", "yes", "on"})
    ELSE value

\* [symbol.strip().upper() for symbol in value.split(',')]
ParseSymbols(chars) ==
    LET pieces == Split(chars, ",")
    IN  [i \in 1..Len(pieces) |-> Text(Upper(Strip(pieces[i])))]

\* bool(value) of Python
Truthy(value) ==
    CASE value.tag = "str" -> value.val # << >>
      [] value.tag = "list" -> value.val # << >>
      [] value.tag = "bool" -> value.val
      [] value.tag = "num" -> value.val # 0
      [] OTHER -> FALSE

\* the attributes load_config sets, with the environment variable, the
\* default and the conversion of each
ConfigKeys ==
    << [attr |-> "stock_symbols", env_var |-> "STOCK_SYMBOLS", kind |-> "list",
        default |-> List(DefaultSymbols)],
       [attr |-> "use_secrets_manager", env_var |-> "USE_SECRETS_MANAGER", kind |-> "bool",
        default |-> Bool(TRUE)],
       [attr |-> "secret_name", env_var |-> "SECRET_NAME", kind |-> "str",
        default |-> Str(<<"f", "i", "n", "n", "h", "u", "b", "-", "a", "p", "i", "-", "k", "e", "y">>)],
       [attr |-> "kinesis_stream_name", env_var |-> "KINESIS_STREAM_NAME", kind |-> "str",
        default |-> Str(<<"s", "t", "o", "c", "k", "-", "p", "r", "i", "c", "e", "s", "-", "s", "t", "r", "e", "a", "m">>)],
       [attr |-> "polling_interval_seconds", env_var |-> "POLLING_INTERVAL_SECONDS",
        kind |-> "int", default |-> Num(300)],
       [attr |-> "max_requests_per_minute", env_var |-> "MAX_REQUESTS_PER_MINUTE",
        kind |-> "int", default |-> Num(60)],
       [attr |-> "aws_region", env_var |-> "AWS_REGION", kind |-> "str",
        default |-> Str(<<"u", "s", "-", "e", "a", "s", "t", "-", "1">>)],
       [attr |-> "enforce_market_hours", env_var |-> "ENFORCE_MARKET_HOURS", kind |-> "bool",
        default |-> Bool(TRUE)],
       [attr |-> "test_mode", env_var |-> "TEST_MODE", kind |-> "bool",
        default |-> Bool(FALSE)] >>

Attributes == { ConfigKeys[i].attr : i \in 1..Len(ConfigKeys) }

ApiKeyVar == "FINNHUB_API_KEY"

EnvVars == { ConfigKeys[i].env_var : i \in 1..Len(ConfigKeys) } \cup {ApiKeyVar}

\* os.getenv(name, default)
GetEnv(environ, name, default) ==
    IF environ[name].tag = "absent" THEN default ELSE environ[name]

\* the config file: missing (os.path.exists is false), invalid (json.load
\* raises) or a JSON object with some members
ConfigFile(kind, members) == [kind |-> kind, members |-> members]

NoMembers == [a \in Attributes |-> Absent]

\* file_config.get(key, default)
FileGet(file_config, key, default) ==
    IF file_config[key].tag = "absent" THEN default ELSE file_config[key]

\* Config._get_config_value(env_var, file_value, default)
GetConfigValue(env_var, environ, file_value, default) ==
    LET value == GetEnv(environ, env_var,
                        IF file_value.tag # "null" THEN file_value ELSE default)
    IN  IF env_var = "STOCK_SYMBOLS" /\ value.tag = "str"
        THEN List(ParseSymbols(value.val))
        ELSE value

JsonError == "Expecting value: line 1 column 1 (char 0)"

\* Config.load_config: the attributes it sets, or the exception that ends it
load_config(environ, file) ==
    IF file.kind = "invalid" THEN [raised |-> JsonError, attrs |-> NoMembers]
    ELSE
    LET file_config == IF file.kind = "object" THEN file.members ELSE NoMembers
        raw == [ i \in 1..Len(ConfigKeys) |->
                   GetConfigValue(
                       ConfigKeys[i].env_var, environ,
                       FileGet(file_config, ConfigKeys[i].attr,
                               IF ConfigKeys[i].attr = "stock_symbols"
                               THEN List(<< >>) ELSE Null),
                       ConfigKeys[i].default) ]
        ints == { i \in 1..Len(ConfigKeys) : ConfigKeys[i].kind = "int" }
        bad == { i \in ints : ParseInt(raw[i]).raised # "" }
        idx(a) == CHOOSE i \in 1..Len(ConfigKeys) : ConfigKeys[i].attr = a
    IN  IF bad # {}
        THEN [ raised |-> ParseInt(raw[CHOOSE i \in bad : \A j \in bad : i <= j]).raised,
               attrs |-> NoMembers ]
        ELSE [ raised |-> "",
               attrs |-> [ a \in Attributes |->
                             CASE ConfigKeys[idx(a)].kind = "bool" -> ToBool(raw[idx(a)])
                               [] ConfigKeys[idx(a)].kind = "int" ->
                                      Num(ParseInt(raw[idx(a)]).val)
                               [] OTHER -> raw[idx(a)] ] ]

\* what the secret store does for one get_api_key: SecretsManager() raises
\* (init_error), get_secret_value raises (client_error), or the response
\* holds a SecretString that is not JSON (plain), one that is a JSON object
\* (object, with its members in text order), a SecretBinary (binary), or
\* neither (empty)
Secret(kind, text, members) == [kind |-> kind, text |-> text, members |-> members]

SecretKeyNames == <<"api_key", "apikey", "key", "token", "finnhub_api_key">>

\* SecretsManager.get_secret(secret_name)
get_secret(store) ==
    CASE store.kind = "plain" ->
             IF store.text # << >> THEN Str(store.text) ELSE Null
      [] store.kind = "object" ->
             IF store.text = << >> THEN Null
             ELSE LET found == { i \in 1..Len(SecretKeyNames) :
                                   \E m \in 1..Len(store.members) :
                                       store.members[m].name = SecretKeyNames[i] }
                  IN  IF found = {} THEN Str(store.text)
                      ELSE LET first == CHOOSE i \in found : \A j \in found : i <= j
                               m == CHOOSE m \in 1..Len(store.members) :
                                        store.members[m].name = SecretKeyNames[first]
                           IN  store.members[m].value
      [] store.kind = "binary" ->
             IF store.text # << >> THEN Str(store.text) ELSE Null
      [] OTHER -> Null

\* variant: the environment variable is preferred to the secret store
get_api_key_EnvironmentFirst(store, environ) ==
    LET env_key == GetEnv(environ, ApiKeyVar, Null)
        api_key == get_secret(store)
    IN  IF Truthy(env_key)
        THEN [value |-> env_key, consulted |-> <<"environment">>]
        ELSE [value |-> IF Truthy(api_key) THEN api_key ELSE Null,
              consulted |-> <<"environment", "secrets_manager">>]

\* SecretsManager.get_api_key(secret_name, fallback_env_var): the value it
\* returns and the sources it consulted, in order
get_api_key(store, environ) ==
    LET api_key == get_secret(store)
    IN  IF Truthy(api_key)
        THEN [value |-> api_key, consulted |-> <<"secrets_manager">>]
        ELSE LET env_key == GetEnv(environ, ApiKeyVar, Null)
             IN  [ value |-> IF Truthy(env_key) THEN env_key ELSE Null,
                   consulted |-> <<"secrets_manager", "environment">> ]

ApiKeyNotFound == "API key not found in Secrets Manager or environment variables"

\* Config.load_api_key: the value left in self.api_key, the exception raised
\* ("" when it returns self.api_key) and the sources consulted, in order
load_api_key(attrs, store, environ) ==
    LET got == IF Truthy(attrs["use_secrets_manager"])
               THEN IF store.kind = "init_error"
                    THEN [ value |-> GetEnv(environ, ApiKeyVar, Null),
                           consulted |-> <<"secrets_manager", "environment">> ]
                    ELSE get_api_key(store, environ)
               ELSE [ value |-> GetEnv(environ, ApiKeyVar, Null),
                      consulted |-> <<"environment">> ]
    IN  [ api_key |-> got.value,
          raised |-> IF Truthy(got.value) THEN "" ELSE ApiKeyNotFound,
          consulted |-> got.consulted ]

\* the values an environment variable of each kind is given
EnvValues(kind) ==
    CASE kind = "list" ->
             { Absent, Str(<<"T", "S", "L", "A", ",", "A", "M", "Z", "N">>), Str(<<" ", "a", "a", "p", "l", " ", ",", " ", "m", "s", "f", "t", " ">>), Str(<< >>) }
      [] kind = "bool" ->
             { Absent, Str(<<"t", "r", "u", "e">>), Str(<<"F", "A", "L", "S", "E">>), Str(<<"O", "n">>), Str(<<"0">>), Str(<< >>) }
      [] kind = "int" ->
             { Absent, Str(<<"6", "0">>), Str(<<" ", "4", "2", " ">>), Str(<<"a", "b", "c">>) }
      [] OTHER ->
             { Absent, Str(<<"c", "u", "s", "t", "o", "m">>) }

\* the values a member of the config file of each kind is given
FileValues(kind) ==
    CASE kind = "list" ->
             { Absent, Null, List(<<"AAPL", "MSFT">>), List(<< >>) }
      [] kind = "bool" ->
             { Absent, Null, Bool(TRUE), Bool(FALSE), Str(<<"y", "e", "s">>) }
      [] kind = "int" ->
             { Absent, Null, Num(120), Str(<<"6", "0">>) }
      [] OTHER ->
             { Absent, Null, Str(<<"j", "s", "o", "n">>) }

ApiKeyValues == { Absent, Str(<< >>), Str(<<"e", "n", "v", "-", "k", "e", "y">>) }

\* the environments and config files of the model: one configuration key
\* at a time is set in the environment, in the file, or in both
EnvironmentsFor(i) ==
    { [ [v \in EnvVars |-> Absent] EXCEPT ![ConfigKeys[i].env_var] = e,
                                          ![ApiKeyVar] = k ] :
        e \in EnvValues(ConfigKeys[i].kind), k \in ApiKeyValues }

ConfigFilesFor(i) ==
    { ConfigFile("missing", NoMembers), ConfigFile("invalid", NoMembers) }
        \cup { ConfigFile("object", [NoMembers EXCEPT ![ConfigKeys[i].attr] = f]) :
                 f \in FileValues(ConfigKeys[i].kind) }

\* the answers of the secret store
SecretStores ==
    { Secret("init_error", << >>, << >>),
      Secret("client_error", << >>, << >>),
      Secret("empty", << >>, << >>),
      Secret("plain", <<"p", "l", "a", "i", "n", "-", "k", "e", "y">>, << >>),
      Secret("binary", <<"b", "i", "n", "a", "r", "y", "-", "k", "e", "y">>, << >>),
      Secret("object", <<"{", ".", ".", ".", "}">>, << [name |-> "token", value |-> Str(<<"t", "o", "k", "e", "n", "-", "k", "e", "y">>)],
                                [name |-> "api_key", value |-> Str(<<"j", "s", "o", "n", "-", "k", "e", "y">>)] >>),
      Secret("object", <<"{", ".", ".", ".", "}">>, << [name |-> "api_key", value |-> Str(<< >>)] >>),
      Secret("object", <<"{", ".", ".", ".", "}">>, << [name |-> "key", value |-> Null] >>),
      Secret("object", <<"{", ".", ".", ".", "}">>, << [name |-> "other", value |-> Str(<<"t", "o", "k", "e", "n", "-", "k", "e", "y">>)] >>) }

\* ------------------------------------------------------------------------
\* State
\* ------------------------------------------------------------------------

VARIABLES
    t,            \* the reference instant handed to the MarketHours methods
    pc,           \* idle; classified: is_market_open(t) has returned; search:
                  \* get_next_market_open(t) is in its loop; returned; raised:
                  \* it ended with ValueError; off: no MarketHours call
    status,       \* the (is_open, reason) result of is_market_open
    check_date,   \* the local variable check_date of get_next_market_open
    next_open     \* the datetime get_next_market_open returned

\* the producer invocation (src/lambda_function.py)
VARIABLES
    p_pc,         \* position of lambda_handler: off, start, gate, log, log_next,
                  \* decide, fetch, publish, done
    config,       \* the fields of Config the handler reads
    trace,        \* the collaborator calls the handler has made, in order
    responses,    \* what the quote source answered, per requested symbol
    stock_data,   \* the list fetch_stock_prices returned
    put_outcome,  \* what kinesis_client.put_records did
    kinesis_records, \* the Records argument of the put_records call
    exc,          \* the exception caught by the handler's except clause
    result        \* the value lambda_handler returned

\* the controller invocations and the workflow service
\* (src/src/step_function_controller.py)
VARIABLES
    c_pc,         \* per invocation: off, start, list, decide, stopping, done
    c_trigger,    \* per invocation: trigger_source
    c_status,     \* per invocation: (is_market_open, reason)
    c_listed,     \* per invocation: running_executions
    c_next,       \* per invocation: position of the loop of stop_running_executions
    c_calls,      \* per invocation: the start and stop calls issued, in order
    c_exc,        \* per invocation: the exception caught by the except clause
    c_result,     \* per invocation: the value lambda_handler returned
    state_machine_arn, \* os.getenv('STATE_MACHINE_ARN'), "" when unset
    running,      \* the service: names of the executions in status RUNNING
    executions,   \* the service: every execution name ever used
    running_before, \* the executions running before the invocations began
    clock         \* int(datetime.utcnow().timestamp())

\* Config and its load_api_key (src/src/config.py)
VARIABLES
    cfg_pc,       \* off; start; loaded: Config() returned; failed: it raised;
                  \* keyed: load_api_key returned; unkeyed: it raised
    environ,      \* os.environ
    config_file,  \* the file at CONFIG_FILE_PATH
    cfg,          \* the attributes of the Config object
    api_key,      \* self.api_key
    cfg_exc,      \* the exception Config() or load_api_key raised
    consulted,    \* the key sources load_api_key consulted, in order
    secret_store, \* what the secret store did during load_api_key
    returned      \* the value load_api_key returned

\* the MarketHours object and the calls completed on it
VARIABLES
    market,       \* the attributes __init__ sets
    calls         \* the completed calls: argument, outcome and result

mhVars == <<t, pc, status, check_date, next_open>>
cfgVars == <<cfg_pc, environ, config_file, cfg, api_key, cfg_exc, consulted,
             secret_store, returned>>
objVars == <<market, calls>>
ctlVars == <<c_pc, c_trigger, c_status, c_listed, c_next, c_calls, c_exc, c_result,
             state_machine_arn, running, executions, running_before, clock>>
prodVars == <<p_pc, config, trace, responses, stock_data, put_outcome, kinesis_records, exc, result>>

vars == <<mhVars, prodVars, ctlVars, cfgVars, objVars>>

NoStatus == Status(FALSE, "")
NoDate == Date(0, 0, 0)
NoDateTime == DateTime(NoDate, 0, Naive)

InputDates ==
    { Date(y, m, d) : y \in FirstYear..LastYear, m \in 1..12, d \in 1..31 }

Inputs ==
    { DateTime(d, mi, tz) :
        d \in { x \in InputDates : x.day <= DaysInMonth(x.year, x.month) },
        mi \in TimesOfDay,
        tz \in {Naive} \cup { Aware(o) : o \in Offsets } }

\* no producer invocation
ProducerOff ==
    /\ p_pc = "off"
    /\ config = NoConfig
    /\ trace = << >>
    /\ responses = << >>
    /\ stock_data = << >>
    /\ put_outcome = NoPut
    /\ kinesis_records = << >>
    /\ exc = ""
    /\ result = NoResult

\* no Config object
ConfigOff ==
    /\ cfg_pc = "off"
    /\ environ = [v \in EnvVars |-> Absent]
    /\ config_file = ConfigFile("missing", NoMembers)
    /\ cfg = NoMembers
    /\ api_key = Null
    /\ cfg_exc = ""
    /\ consulted = << >>
    /\ secret_store = Secret("empty", << >>, << >>)
    /\ returned = Null

\* MarketHours.__init__: the attributes of the object
MarketHoursObject ==
    [ market_timezone |-> "America/New_York",
      market_open_time |-> market_open_time,
      market_close_time |-> market_close_time,
      market_holidays_2024 |-> market_holidays_2024,
      market_holidays_2025 |-> market_holidays_2025 ]

\* a MarketHours object on which no call has been completed
MarketHoursNew ==
    /\ market = MarketHoursObject
    /\ calls = << >>

\* no controller invocation
ControllerOff ==
    /\ c_pc = [i \in Invocations |-> "off"]
    /\ c_trigger = [i \in Invocations |-> ""]
    /\ c_status = [i \in Invocations |-> NoStatus]
    /\ c_listed = [i \in Invocations |-> << >>]
    /\ c_next = [i \in Invocations |-> 0]
    /\ c_calls = [i \in Invocations |-> << >>]
    /\ c_exc = [i \in Invocations |-> ""]
    /\ c_result = [i \in Invocations |-> NoResult]
    /\ state_machine_arn = ""
    /\ running = {}
    /\ executions = {}
    /\ running_before = {}
    /\ clock = 0

\* no MarketHours call in progress
MarketHoursOff ==
    /\ t = NoDateTime
    /\ pc = "off"
    /\ status = NoStatus
    /\ check_date = NoDate
    /\ next_open = NoDateTime

Init ==
    /\ t \in Inputs
    /\ pc = "idle"
    /\ status = NoStatus
    /\ check_date = NoDate
    /\ next_open = NoDateTime
    /\ ProducerOff
    /\ ControllerOff
    /\ ConfigOff
    /\ MarketHoursNew

\* variant: is_market_open converts the datetime it was handed in place
IsMarketOpen_ConvertsInPlace ==
    /\ pc = "idle"
    /\ status' = is_market_open(t)
    /\ t' = Normalize(t)
    /\ pc' = "classified"
    /\ UNCHANGED <<check_date, next_open, prodVars, ctlVars, cfgVars, objVars>>

\* is_market_open(t)
IsMarketOpen ==
    /\ pc = "idle"
    /\ status' = is_market_open(t)
    /\ pc' = "classified"
    /\ UNCHANGED <<t, check_date, next_open, prodVars, ctlVars, cfgVars, objVars>>

\* variant: the day field advances by two
ReplaceDayPlusOne_SkipsDay(d) ==
    IF d.day + 2 <= DaysInMonth(d.year, d.month)
    THEN [ok |-> TRUE, date |-> Date(d.year, d.month, d.day + 2)]
    ELSE [ok |-> FALSE, date |-> d]

\* check_date.replace(day=check_date.day + 1): ok is FALSE where date.replace
\* raises ValueError (day is out of range for month)
ReplaceDayPlusOne(d) ==
    IF d.day + 1 <= DaysInMonth(d.year, d.month)
    THEN [ok |-> TRUE, date |-> Date(d.year, d.month, d.day + 1)]
    ELSE [ok |-> FALSE, date |-> d]

\* variant: the candidate is built at the close time
Candidate_AtCloseTime(d) == Localize(DateTime(d, TimeMinutes(market_close_time), Naive))

\* the candidate of one loop iteration:
\* market_timezone.localize(datetime.combine(check_date, market_open_time))
Candidate(d) == Localize(DateTime(d, TimeMinutes(market_open_time), Naive))

\* get_next_market_open(t), up to the loop: normalisation and the start date
GetNextMarketOpenBegin ==
    /\ pc = "idle"
    /\ LET current_time == Normalize(t)
           step == ReplaceDayPlusOne(current_time.date)
       IN  IF current_time.minute >= TimeMinutes(market_close_time)
           THEN /\ check_date' = step.date
                /\ pc' = IF step.ok THEN "search" ELSE "raised"
           ELSE /\ check_date' = current_time.date
                /\ pc' = "search"
    /\ UNCHANGED <<t, status, next_open, prodVars, ctlVars, cfgVars, objVars>>

\* a loop iteration whose candidate is a weekday and not a holiday: return it
GetNextMarketOpenReturn ==
    /\ pc = "search"
    /\ LET candidate == Candidate(check_date)
       IN  /\ is_weekday(candidate) /\ ~is_market_holiday(candidate)
           /\ next_open' = candidate
    /\ pc' = "returned"
    /\ UNCHANGED <<t, status, check_date, prodVars, ctlVars, cfgVars, objVars>>

\* a loop iteration whose candidate is rejected: move to the next day
GetNextMarketOpenAdvance ==
    /\ pc = "search"
    /\ LET candidate == Candidate(check_date)
       IN  ~(is_weekday(candidate) /\ ~is_market_holiday(candidate))
    /\ LET step == ReplaceDayPlusOne(check_date)
       IN  /\ check_date' = step.date
           /\ pc' = IF step.ok THEN "search" ELSE "raised"
    /\ UNCHANGED <<t, status, next_open, prodVars, ctlVars, cfgVars, objVars>>

Next ==
    \/ IsMarketOpen
    \/ GetNextMarketOpenBegin
    \/ GetNextMarketOpenReturn
    \/ GetNextMarketOpenAdvance

Spec == Init /\ [][Next]_vars

\* ------------------------------------------------------------------------
\* Producer: lambda_handler (src/lambda_function.py)
\* ------------------------------------------------------------------------

\* datetime.now(market_timezone): the instants the clock can show, every
\* day of LastYear
NowInstants ==
    { Localize(DateTime(d, mi, Naive)) :
        d \in { x \in InputDates :
                  x.year = LastYear /\ x.day <= DaysInMonth(x.year, x.month) },
        mi \in TimesOfDay }

\* a later reading of the clock within one invocation: the same minute or
\* the next one
LaterReadings(dt) ==
    LET u == UtcMinutes(dt) + 1 IN {dt, AtOffset(u, MarketOffsetAt(u))}

\* the exceptions of Config() and config.load_api_key()
SetupErrors ==
    { "Expecting value: line 1 column 1 (char 0)",
      "API key not found in Secrets Manager or environment variables" }

\* str(e) of the ValueError of date.replace
DayOutOfRange == "day is out of range for month"

InitProducer ==
    /\ t = NoDateTime
    /\ pc = "off"
    /\ status = NoStatus
    /\ check_date = NoDate
    /\ next_open = NoDateTime
    /\ p_pc = "start"
    /\ config = NoConfig
    /\ trace = << >>
    /\ responses = << >>
    /\ stock_data = << >>
    /\ put_outcome = NoPut
    /\ kinesis_records = << >>
    /\ exc = ""
    /\ result = NoResult
    /\ ControllerOff
    /\ ConfigOff
    /\ MarketHoursNew

\* lines 21-28: Config(), MarketHours(), config.load_api_key() succeed
ProducerSetup ==
    /\ p_pc = "start"
    /\ \E enforce \in BOOLEAN, test \in BOOLEAN, symbols \in SymbolLists :
           config' = Config(enforce, test, symbols)
    /\ p_pc' = "gate"
    /\ UNCHANGED <<ctlVars, cfgVars, objVars>>
    /\ UNCHANGED <<mhVars, trace, responses, stock_data, put_outcome, kinesis_records, exc, result>>

\* lines 21-26 and 70-78: Config() or config.load_api_key() raises
ProducerSetupFails ==
    /\ p_pc = "start"
    /\ \E e \in SetupErrors :
           /\ exc' = e
           /\ result' = ErrorResult(e)
    /\ p_pc' = "done"
    /\ UNCHANGED <<ctlVars, cfgVars, objVars>>
    /\ UNCHANGED <<mhVars, config, trace, responses, stock_data, put_outcome, kinesis_records>>

\* lines 31-32: the gate applies; market_hours.is_market_open() reads the clock
ProducerCheckMarket ==
    /\ p_pc = "gate"
    /\ GateApplies(config)
    /\ \E now \in NowInstants :
           /\ t' = now
           /\ status' = is_market_open(now)
    /\ trace' = Append(trace, "is_market_open")
    /\ p_pc' = "log"
    /\ UNCHANGED <<ctlVars, cfgVars, objVars>>
    /\ UNCHANGED <<pc, check_date, next_open, config, responses, stock_data, put_outcome,
                   kinesis_records, exc, result>>

\* lines 45-48: test mode, or enforcement disabled
ProducerBypassGate ==
    /\ p_pc = "gate"
    /\ ~GateApplies(config)
    /\ p_pc' = "fetch"
    /\ UNCHANGED <<ctlVars, cfgVars, objVars>>
    /\ UNCHANGED <<mhVars, config, trace, responses, stock_data, put_outcome, kinesis_records,
                   exc, result>>

\* line 33: market_hours.log_market_status() (market_hours.py 159-169) reads
\* the clock for its own is_market_open() and again for the log line; if
\* closed it calls get_next_market_open with the last reading
ProducerLogStatus ==
    /\ p_pc = "log"
    /\ trace' = Append(trace, "log_market_status")
    /\ \E now2 \in LaterReadings(t), now3 \in LaterReadings(t) :
           /\ UtcMinutes(now2) <= UtcMinutes(now3)
           /\ IF is_market_open(now2).is_open
              THEN /\ p_pc' = "decide"
                   /\ UNCHANGED <<t, pc>>
              ELSE /\ t' = now3
                   /\ pc' = "idle"
                   /\ p_pc' = "log_next"
    /\ UNCHANGED <<ctlVars, cfgVars, objVars>>
    /\ UNCHANGED <<status, check_date, next_open, config, responses, stock_data, put_outcome,
                   kinesis_records, exc, result>>

\* market_hours.py 169-170: get_next_market_open returned, the line is logged
ProducerLogReturns ==
    /\ p_pc = "log_next"
    /\ pc = "returned"
    /\ p_pc' = "decide"
    /\ UNCHANGED <<ctlVars, cfgVars, objVars>>
    /\ UNCHANGED <<mhVars, config, trace, responses, stock_data, put_outcome, kinesis_records,
                   exc, result>>

\* market_hours.py 169 and lambda_function.py 70-78: get_next_market_open
\* raised ValueError, which reaches the handler's except clause
ProducerLogRaises ==
    /\ p_pc = "log_next"
    /\ pc = "raised"
    /\ exc' = DayOutOfRange
    /\ result' = ErrorResult(DayOutOfRange)
    /\ p_pc' = "done"
    /\ UNCHANGED <<ctlVars, cfgVars, objVars>>
    /\ UNCHANGED <<mhVars, config, trace, responses, stock_data, put_outcome, kinesis_records>>

\* lines 35-44: the market is closed, the invocation is skipped
ProducerSkip ==
    /\ p_pc = "decide"
    /\ ~status.is_open
    /\ result' = SkippedResult(status.reason)
    /\ p_pc' = "done"
    /\ UNCHANGED <<ctlVars, cfgVars, objVars>>
    /\ UNCHANGED <<mhVars, config, trace, responses, stock_data, put_outcome, kinesis_records, exc>>

\* line 35, market open: the locals of the MarketHours calls are gone
ProducerProceed ==
    /\ p_pc = "decide"
    /\ status.is_open
    /\ p_pc' = "fetch"
    /\ t' = NoDateTime
    /\ pc' = "off"
    /\ check_date' = NoDate
    /\ next_open' = NoDateTime
    /\ UNCHANGED <<ctlVars, cfgVars, objVars>>
    /\ UNCHANGED <<status, config, trace, responses, stock_data, put_outcome, kinesis_records,
                   exc, result>>

\* lines 50-52: fetch_stock_prices(config.stock_symbols, config.api_key)
ProducerFetch ==
    /\ p_pc = "fetch"
    /\ \E answers \in [1..Len(config.stock_symbols) -> Responses] :
           /\ responses' = answers
           /\ stock_data' = fetch_stock_prices(config.stock_symbols, answers)
    /\ trace' = Append(trace, "fetch_stock_prices")
    /\ p_pc' = "publish"
    /\ UNCHANGED <<ctlVars, cfgVars, objVars>>
    /\ UNCHANGED <<mhVars, config, put_outcome, kinesis_records, exc, result>>

\* lines 54-56 and 60-78: send_to_kinesis, then the result
ProducerPublish ==
    /\ p_pc = "publish"
    /\ HasData(stock_data)
    /\ \E outcome \in PutOutcomes(Len(stock_data)) :
           LET sent == send_to_kinesis(stock_data, outcome)
           IN  /\ put_outcome' = outcome
               /\ exc' = sent.raised
               /\ result' = IF sent.raised # ""
                            THEN ErrorResult(sent.raised)
                            ELSE ProcessedResult(Len(stock_data), config.test_mode)
    /\ kinesis_records' = KinesisRecords(stock_data)
    /\ trace' = Append(trace, "put_records")
    /\ p_pc' = "done"
    /\ UNCHANGED <<ctlVars, cfgVars, objVars>>
    /\ UNCHANGED <<mhVars, config, responses, stock_data>>

\* lines 57-68: no stock data, nothing is sent
ProducerNoData ==
    /\ p_pc = "publish"
    /\ ~HasData(stock_data)
    /\ result' = ProcessedResult(Len(stock_data), config.test_mode)
    /\ p_pc' = "done"
    /\ UNCHANGED <<ctlVars, cfgVars, objVars>>
    /\ UNCHANGED <<mhVars, config, trace, responses, stock_data, put_outcome, kinesis_records, exc>>

\* get_next_market_open as called by log_market_status
ProducerNextOpen ==
    /\ p_pc = "log_next"
    /\ \/ GetNextMarketOpenBegin
       \/ GetNextMarketOpenReturn
       \/ GetNextMarketOpenAdvance

NextProducer ==
    \/ ProducerSetup
    \/ ProducerSetupFails
    \/ ProducerCheckMarket
    \/ ProducerBypassGate
    \/ ProducerLogStatus
    \/ ProducerNextOpen
    \/ ProducerLogReturns
    \/ ProducerLogRaises
    \/ ProducerSkip
    \/ ProducerProceed
    \/ ProducerFetch
    \/ ProducerPublish
    \/ ProducerNoData

SpecProducer == InitProducer /\ [][NextProducer]_vars

\* ------------------------------------------------------------------------
\* Controller: lambda_handler (src/src/step_function_controller.py), two
\* invocations that may overlap, interleaved at their service calls
\* ------------------------------------------------------------------------

InitController ==
    /\ MarketHoursOff
    /\ ProducerOff
    /\ ConfigOff
    /\ MarketHoursNew
    /\ c_pc = [i \in Invocations |-> "start"]
    /\ c_trigger = [i \in Invocations |-> ""]
    /\ c_status = [i \in Invocations |-> NoStatus]
    /\ c_listed = [i \in Invocations |-> << >>]
    /\ c_next = [i \in Invocations |-> 0]
    /\ c_calls = [i \in Invocations |-> << >>]
    /\ c_exc = [i \in Invocations |-> ""]
    /\ c_result = [i \in Invocations |-> NoResult]
    /\ state_machine_arn \in {"", "arn:state-machine"}
    /\ running_before \in SUBSET InitialExecutions
    /\ running = running_before
    /\ executions = running_before
    /\ clock = 0

\* the handler returns the result r, having caught the exception e ("" if none)
CtlReturn(i, e, r) ==
    /\ c_exc' = [c_exc EXCEPT ![i] = e]
    /\ c_result' = [c_result EXCEPT ![i] = r]
    /\ c_pc' = [c_pc EXCEPT ![i] = "done"]

\* lines 24-26 and 88-96: the ARN is not set
CtlArnMissing(i) ==
    /\ c_pc[i] = "start"
    /\ state_machine_arn = ""
    /\ CtlReturn(i, ArnNotSet, CtlErrorResult(ArnNotSet))
    /\ UNCHANGED <<c_trigger, c_status, c_listed, c_next, c_calls, state_machine_arn,
                   running, executions, running_before, clock>>
    /\ UNCHANGED <<mhVars, prodVars, cfgVars, objVars>>

\* lines 29-37: the trigger source, then market_hours.is_market_open()
CtlCheckMarket(i) ==
    /\ c_pc[i] = "start"
    /\ state_machine_arn # ""
    /\ \E trigger_source \in Triggers, now \in CtlInstants :
           /\ c_trigger' = [c_trigger EXCEPT ![i] = trigger_source]
           /\ c_status' = [c_status EXCEPT ![i] = is_market_open(now)]
    /\ c_pc' = [c_pc EXCEPT ![i] = "list"]
    /\ UNCHANGED <<c_listed, c_next, c_calls, c_exc, c_result, state_machine_arn,
                   running, executions, running_before, clock>>
    /\ UNCHANGED <<mhVars, prodVars, cfgVars, objVars>>

\* lines 40-46: list_executions answers
CtlList(i) ==
    /\ c_pc[i] = "list"
    /\ c_listed' = [c_listed EXCEPT ![i] = ListExecutions(running)]
    /\ c_pc' = [c_pc EXCEPT ![i] = "decide"]
    /\ UNCHANGED <<c_trigger, c_status, c_next, c_calls, c_exc, c_result,
                   state_machine_arn, running, executions, running_before, clock>>
    /\ UNCHANGED <<mhVars, prodVars, cfgVars, objVars>>

\* lines 40-43 and 88-96: list_executions raises
CtlListFails(i) ==
    /\ c_pc[i] = "list"
    /\ CtlReturn(i, ListFailed, CtlErrorResult(ListFailed))
    /\ UNCHANGED <<c_trigger, c_status, c_listed, c_next, c_calls, state_machine_arn,
                   running, executions, running_before, clock>>
    /\ UNCHANGED <<mhVars, prodVars, cfgVars, objVars>>

\* lines 54-58 and 98-111: start_execution under a name made of the clock's
\* second; its exception reaches the handler's except clause
CtlStart(i) ==
    /\ c_pc[i] = "decide"
    /\ Decision(c_status[i].is_open, Len(c_listed[i]) > 0) = "started"
    /\ LET execution_name == SessionName(clock)
       IN  \E raised \in StartOutcomes(execution_name, executions) :
               /\ c_calls' = [c_calls EXCEPT
                                ![i] = Append(@, Call("start", execution_name, raised = ""))]
               /\ IF raised = ""
                  THEN /\ running' = running \cup {execution_name}
                       /\ executions' = executions \cup {execution_name}
                       /\ CtlReturn(i, "", CtlResult(c_trigger[i], c_status[i],
                                                      Len(c_listed[i]), "started"))
                  ELSE /\ UNCHANGED <<running, executions>>
                       /\ CtlReturn(i, raised, CtlErrorResult(raised))
    /\ UNCHANGED <<c_trigger, c_status, c_listed, c_next, state_machine_arn,
                   running_before, clock>>
    /\ UNCHANGED <<mhVars, prodVars, cfgVars, objVars>>

\* lines 60-62, 66-86: the other three rows of the decision; the stop row
\* enters the loop of stop_running_executions
CtlDecide(i) ==
    /\ c_pc[i] = "decide"
    /\ LET action_taken == Decision(c_status[i].is_open, Len(c_listed[i]) > 0)
       IN  /\ action_taken # "started"
           /\ IF action_taken = "stopped"
              THEN /\ c_pc' = [c_pc EXCEPT ![i] = "stopping"]
                   /\ c_next' = [c_next EXCEPT ![i] = 1]
                   /\ UNCHANGED <<c_exc, c_result>>
              ELSE /\ CtlReturn(i, "", CtlResult(c_trigger[i], c_status[i],
                                                  Len(c_listed[i]), action_taken))
                   /\ UNCHANGED c_next
    /\ UNCHANGED <<c_trigger, c_status, c_listed, c_calls, state_machine_arn,
                   running, executions, running_before, clock>>
    /\ UNCHANGED <<mhVars, prodVars, cfgVars, objVars>>

\* variant: an exception of stop_execution ends the loop and the handler
CtlStopOne_AbortsOnFailure(i) ==
    /\ c_pc[i] = "stopping"
    /\ LET targets == StopTargets(c_listed[i])
           name == targets[c_next[i]]
       IN  /\ \E ok \in BOOLEAN :
                  /\ c_calls' = [c_calls EXCEPT ![i] = Append(@, Call("stop", name, ok))]
                  /\ running' = IF ok THEN running \ {name} ELSE running
                  /\ IF ~ok
                     THEN /\ CtlReturn(i, "stop_execution failed",
                                       CtlErrorResult("stop_execution failed"))
                          /\ UNCHANGED c_next
                     ELSE IF c_next[i] < Len(targets)
                     THEN /\ c_next' = [c_next EXCEPT ![i] = @ + 1]
                          /\ UNCHANGED <<c_pc, c_exc, c_result>>
                     ELSE /\ CtlReturn(i, "", CtlResult(c_trigger[i], c_status[i],
                                                         Len(c_listed[i]), "stopped"))
                          /\ UNCHANGED c_next
    /\ UNCHANGED <<c_trigger, c_status, c_listed, state_machine_arn, executions,
                   running_before, clock>>
    /\ UNCHANGED <<mhVars, prodVars, cfgVars, objVars>>

\* lines 115-122: one iteration of the loop; an exception of stop_execution
\* is logged and swallowed; after the last iteration lines 63-86 return
CtlStopOne(i) ==
    /\ c_pc[i] = "stopping"
    /\ LET targets == StopTargets(c_listed[i])
           name == targets[c_next[i]]
       IN  /\ \E ok \in BOOLEAN :
                  /\ c_calls' = [c_calls EXCEPT ![i] = Append(@, Call("stop", name, ok))]
                  /\ running' = IF ok THEN running \ {name} ELSE running
           /\ IF c_next[i] < Len(targets)
              THEN /\ c_next' = [c_next EXCEPT ![i] = @ + 1]
                   /\ UNCHANGED <<c_pc, c_exc, c_result>>
              ELSE /\ CtlReturn(i, "", CtlResult(c_trigger[i], c_status[i],
                                                  Len(c_listed[i]), "stopped"))
                   /\ UNCHANGED c_next
    /\ UNCHANGED <<c_trigger, c_status, c_listed, state_machine_arn, executions,
                   running_before, clock>>
    /\ UNCHANGED <<mhVars, prodVars, cfgVars, objVars>>

\* a second passes while an invocation is under way
CtlTick ==
    /\ \E i \in Invocations : c_pc[i] \notin {"off", "done"}
    /\ clock < MaxClockSec
    /\ clock' = clock + 1
    /\ UNCHANGED <<c_pc, c_trigger, c_status, c_listed, c_next, c_calls, c_exc, c_result,
                   state_machine_arn, running, executions, running_before>>
    /\ UNCHANGED <<mhVars, prodVars, cfgVars, objVars>>

NextController ==
    \/ \E i \in Invocations : CtlArnMissing(i)
    \/ \E i \in Invocations : CtlCheckMarket(i)
    \/ \E i \in Invocations : CtlList(i)
    \/ \E i \in Invocations : CtlListFails(i)
    \/ \E i \in Invocations : CtlStart(i)
    \/ \E i \in Invocations : CtlDecide(i)
    \/ \E i \in Invocations : CtlStopOne(i)
    \/ CtlTick

SpecController == InitController /\ [][NextController]_vars

\* ------------------------------------------------------------------------
\* Both handlers: the trigger invokes the producer, or the controller
\* ------------------------------------------------------------------------

InitHandlers ==
    \/ InitProducer
    \/ InitController

NextHandlers ==
    \/ NextProducer
    \/ NextController

SpecHandlers == InitHandlers /\ [][NextHandlers]_vars

\* ------------------------------------------------------------------------
\* Config: Config() and then config.load_api_key() (src/src/config.py)
\* ------------------------------------------------------------------------

InitConfig ==
    /\ MarketHoursOff
    /\ MarketHoursNew
    /\ ProducerOff
    /\ ControllerOff
    /\ cfg_pc = "start"
    /\ \E i \in 1..Len(ConfigKeys) :
           /\ environ \in EnvironmentsFor(i)
           /\ config_file \in ConfigFilesFor(i)
    /\ cfg = NoMembers
    /\ api_key = Null
    /\ cfg_exc = ""
    /\ consulted = << >>
    /\ secret_store = Secret("empty", << >>, << >>)
    /\ returned = Null

\* Config.__init__: load_config returns
ConfigConstruct ==
    /\ cfg_pc = "start"
    /\ LET loaded == load_config(environ, config_file)
       IN  /\ loaded.raised = ""
           /\ cfg' = loaded.attrs
    /\ api_key' = Null
    /\ cfg_pc' = "loaded"
    /\ UNCHANGED <<environ, config_file, cfg_exc, consulted, secret_store, returned>>
    /\ UNCHANGED <<mhVars, prodVars, ctlVars, objVars>>

\* Config.__init__: json.load or int() raises
ConfigConstructFails ==
    /\ cfg_pc = "start"
    /\ LET loaded == load_config(environ, config_file)
       IN  /\ loaded.raised # ""
           /\ cfg_exc' = loaded.raised
    /\ cfg_pc' = "failed"
    /\ UNCHANGED <<environ, config_file, cfg, api_key, consulted, secret_store, returned>>
    /\ UNCHANGED <<mhVars, prodVars, ctlVars, objVars>>

\* Config.load_api_key returns or raises, whatever the secret store does
ConfigLoadApiKey ==
    /\ cfg_pc = "loaded"
    /\ \E store \in SecretStores :
           LET r == load_api_key(cfg, store, environ)
           IN  /\ secret_store' = store
               /\ api_key' = r.api_key
               /\ consulted' = r.consulted
               /\ cfg_exc' = r.raised
               /\ returned' = IF r.raised = "" THEN r.api_key ELSE Null
               /\ cfg_pc' = IF r.raised = "" THEN "keyed" ELSE "unkeyed"
    /\ UNCHANGED <<environ, config_file, cfg>>
    /\ UNCHANGED <<mhVars, prodVars, ctlVars, objVars>>

NextConfig ==
    \/ ConfigConstruct
    \/ ConfigConstructFails
    \/ ConfigLoadApiKey

SpecConfig == InitConfig /\ [][NextConfig]_vars

\* ------------------------------------------------------------------------
\* MarketHours: several calls, one after the other, on one object
\* ------------------------------------------------------------------------

MaxCalls == 2

\* the arguments of the calls: inside the window (naive, and the same
\* instant under the offsets of New York and Tokyo), after the close on the
\* last day of a month, a Saturday, a holiday
CallInputs ==
    { DateTime(Date(2025, 3, 12), 14 * 60, Naive),
      DateTime(Date(2025, 3, 12), 14 * 60, Aware(EDT)),
      DateTime(Date(2025, 3, 13), 3 * 60, Aware(540)),
      DateTime(Date(2025, 1, 31), 17 * 60, Naive),
      DateTime(Date(2025, 3, 15), 14 * 60, Aware(0)),
      DateTime(Date(2025, 7, 4), 9 * 60, Naive) }

InitCalls ==
    /\ t \in CallInputs
    /\ pc = "idle"
    /\ status = NoStatus
    /\ check_date = NoDate
    /\ next_open = NoDateTime
    /\ MarketHoursNew
    /\ ProducerOff
    /\ ControllerOff
    /\ ConfigOff

\* a call has ended (returned or raised) and the caller makes the next call
\* on the same object
CallAgain ==
    /\ pc \in {"classified", "returned", "raised"}
    /\ Len(calls) < MaxCalls
    /\ calls' = Append(calls, [ arg |-> t, outcome |-> pc, status |-> status,
                                next_open |-> next_open ])
    /\ t' \in CallInputs
    /\ pc' = "idle"
    /\ status' = NoStatus
    /\ check_date' = NoDate
    /\ next_open' = NoDateTime
    /\ UNCHANGED <<market, prodVars, ctlVars, cfgVars>>

NextCalls ==
    \/ IsMarketOpen
    \/ GetNextMarketOpenBegin
    \/ GetNextMarketOpenReturn
    \/ GetNextMarketOpenAdvance
    \/ CallAgain

SpecCalls == InitCalls /\ [][NextCalls]_vars

\* ------------------------------------------------------------------------
\* Properties of the market-hours engine
\* ------------------------------------------------------------------------

\* the reference instant as the market timezone shows it
MarketView == Normalize(t)

HolidayTable ==
    { market_holidays_2024[i] : i \in 1..Len(market_holidays_2024) }
        \cup { market_holidays_2025[i] : i \in 1..Len(market_holidays_2025) }

\* a Monday-Friday date that is in no holiday table
TradingDate(d) == Weekday(d) \in 0..4 /\ d \notin HolidayTable

OpenMinute == 9 * 60 + 30
CloseMinute == 16 * 60

\* C1: on a Monday-Friday date that is not a holiday, is_market_open reports
\* open exactly when 09:30 <= time of day < 16:00; 09:30 sharp is open and
\* 16:00 sharp is closed with the after-closing-hours reason.
C1_OpenIffInsideWindow ==
    (pc = "classified" /\ TradingDate(MarketView.date)) =>
        /\ status.is_open <=>
               (OpenMinute <= MarketView.minute /\ MarketView.minute < CloseMinute)
        /\ (MarketView.minute = OpenMinute) => status.is_open
        /\ (MarketView.minute = CloseMinute) =>
               /\ ~status.is_open
               /\ status.reason = "Market closed: After closing hours (closed at 16:00:00)"

\* is_market_open has answered for 16:00 sharp on a trading date
C1_Witness ==
    /\ pc = "classified"
    /\ TradingDate(MarketView.date)
    /\ MarketView.minute = CloseMinute
    /\ ~status.is_open

\* C2: whatever the market status at t, the timestamp get_next_market_open(t)
\* returns is strictly later than t.
C2_NextOpenStrictlyLater ==
    (pc = "returned") => UtcMinutes(next_open) > UtcMinutes(MarketView)

\* C3: get_next_market_open never raises, also when the day-by-day search
\* steps past the last day of a month or of a year.
C3_NextOpenNeverRaises == pc # "raised"

\* C4: for a Friday reference at or after 16:00 whose following Monday is a
\* holiday, get_next_market_open returns the Tuesday after it at 09:30.
C4_FridayBeforeHolidayMonday ==
    (/\ pc \in {"returned", "raised"}
     /\ Weekday(MarketView.date) = 4
     /\ MarketView.minute >= CloseMinute
     /\ FromOrdinal(ToOrdinal(MarketView.date) + 3) \in HolidayTable) =>
        /\ pc = "returned"
        /\ next_open.date = FromOrdinal(ToOrdinal(MarketView.date) + 4)
        /\ next_open.minute = OpenMinute

\* C5: when get_next_market_open(t) returns r, no trading date lies strictly
\* between t's market date and r's date; and if t is at or after close, r's
\* date is the first trading date after t's date.
C5_NextOpenIsFirstTradingDate ==
    (pc = "returned") =>
        LET from == ToOrdinal(MarketView.date)
            to == ToOrdinal(next_open.date)
        IN  /\ \A n \in (from + 1)..(to - 1) : ~TradingDate(FromOrdinal(n))
            /\ (MarketView.minute >= CloseMinute) =>
                   /\ to > from
                   /\ TradingDate(next_open.date)

\* a search from after close that had to pass at least one closed day
C5_Witness ==
    /\ pc = "returned"
    /\ MarketView.minute >= CloseMinute
    /\ ToOrdinal(next_open.date) >= ToOrdinal(MarketView.date) + 2

\* C6: when get_next_market_open(t) returns r, r is at 09:30 market time on a
\* Monday-Friday date that is not a holiday, so is_market_open(r) is open.
C6_NextOpenIsAnOpeningInstant ==
    (pc = "returned") =>
        /\ next_open.minute = OpenMinute
        /\ next_open.tz = Aware(MarketOffsetAt(UtcMinutes(next_open)))
        /\ TradingDate(next_open.date)
        /\ is_market_open(next_open) = Status(TRUE, "Market open: Regular trading hours")

\* the search has returned after rejecting at least one candidate date
C6_Witness ==
    /\ pc = "returned"
    /\ next_open.date # MarketView.date
    /\ next_open.minute = OpenMinute

\* the reason the five rules give, taken in priority order
ExpectedStatus(dt) ==
    IF Weekday(dt.date) \in {5, 6}
    THEN Status(FALSE, WeekendReason(DayName(dt.date)))
    ELSE IF dt.date \in HolidayTable
    THEN Status(FALSE, HolidayReason(FormatDate(dt.date)))
    ELSE IF dt.minute < OpenMinute
    THEN Status(FALSE, "Market closed: Before opening hours (opens at 09:30:00)")
    ELSE IF dt.minute >= CloseMinute
    THEN Status(FALSE, "Market closed: After closing hours (closed at 16:00:00)")
    ELSE Status(TRUE, "Market open: Regular trading hours")

\* the rules whose reason text a reason string carries
RulesNamed(reason, dt) ==
    { r \in {"weekend", "holiday", "before-open", "after-close", "open"} :
        \/ r = "weekend" /\ reason = WeekendReason(DayName(dt.date))
        \/ r = "holiday" /\ reason = HolidayReason(FormatDate(dt.date))
        \/ r = "before-open" /\ reason = BeforeOpenReason
        \/ r = "after-close" /\ reason = AfterCloseReason
        \/ r = "open" /\ reason = OpenReason }

\* C7: is_market_open answers every instant with a reason that names exactly
\* one of the five rules, chosen in the order weekend, holiday, before-open,
\* after-close, open; is_open is true only with the open reason.
C7_ReasonFollowsPriorityOrder ==
    (pc = "classified") =>
        /\ status = ExpectedStatus(MarketView)
        /\ Cardinality(RulesNamed(status.reason, MarketView)) = 1
        /\ status.is_open <=> (RulesNamed(status.reason, MarketView) = {"open"})

\* a holiday before 09:30 has been classified as a holiday
C7_Witness ==
    /\ pc = "classified"
    /\ MarketView.date \in HolidayTable
    /\ MarketView.minute < OpenMinute
    /\ RulesNamed(status.reason, MarketView) = {"holiday"}

\* C8: every instant on a Saturday or Sunday of the market timezone, at any
\* time of day, is closed with a weekend reason that names the weekday.
C8_WeekendIsClosed ==
    (pc = "classified" /\ Weekday(MarketView.date) \in {5, 6}) =>
        /\ ~status.is_open
        /\ status.reason =
               IF Weekday(MarketView.date) = 5
               THEN "Market closed: Weekend (Saturday)"
               ELSE "Market closed: Weekend (Sunday)"

\* a Saturday inside the trading window has been classified
C8_Witness ==
    /\ pc = "classified"
    /\ Weekday(MarketView.date) = 5
    /\ MarketView.minute = 14 * 60
    /\ status.reason = "Market closed: Weekend (Saturday)"

\* C9: every instant on a date of the 2024 or 2025 holiday table is closed
\* with the holiday reason, whatever the time of day.
C9_HolidayIsClosed ==
    (pc = "classified" /\ MarketView.date \in HolidayTable) =>
        /\ ~status.is_open
        /\ status.reason = HolidayReason(FormatDate(MarketView.date))

\* Christmas Day 2024 inside the trading window has been classified
C9_Witness ==
    /\ pc = "classified"
    /\ MarketView.date = Date(2024, 12, 25)
    /\ MarketView.minute = 14 * 60
    /\ status = Status(FALSE, "Market closed: Holiday (2024-12-25)")

\* C10: two timezone-aware timestamps that denote the same instant under
\* different UTC offsets get the same (is_open, reason) from is_market_open.
C10_SameInstantSameStatus ==
    (pc = "classified" /\ t.tz.kind = "aware") =>
        \A o \in Offsets : is_market_open(AtOffset(UtcMinutes(t), o)) = status

\* an instant classified open whose UTC and Japan representations fall on
\* different calendar dates
C10_Witness ==
    /\ pc = "classified"
    /\ t.tz = Aware(0)
    /\ AtOffset(UtcMinutes(t), 540).date # t.date
    /\ status.is_open

\* ------------------------------------------------------------------------
\* Properties of the producer handler
\* ------------------------------------------------------------------------

\* the handler has made the collaborator call named c
Called(c) == \E i \in 1..Len(trace) : trace[i] = c

\* the five reasons of a closed or open market carry one of these heads
ClosedReason(reason) == reason # "" /\ reason # "Market open: Regular trading hours"

\* C11: the producer skips exactly when enforcement is on, test mode is off
\* and the Oracle reports closed; then, for every closed instant, there is
\* no quote fetch and no publish and the result is status 200 with message
\* 'Execution skipped: <reason>' and market_status 'closed'.
C11_ClosedMarketIsSkipped ==
    (p_pc = "done" /\ config.loaded) =>
        LET gated_closed ==
                /\ config.enforce_market_hours
                /\ ~config.test_mode
                /\ Called("is_market_open")
                /\ ~status.is_open
            skipped ==
                /\ result.statusCode = 200
                /\ result.body = [ message |-> "Execution skipped: " \o status.reason,
                                   market_status |-> "closed",
                                   timestamp |-> UtcNowIso ]
                /\ ClosedReason(status.reason)
                /\ ~Called("fetch_stock_prices")
                /\ ~Called("put_records")
        IN  gated_closed <=> skipped

\* C12: with test mode on or enforcement off, the producer never consults
\* the market-hours Oracle and always proceeds to fetch quotes.
C12_BypassNeverConsultsOracle ==
    (config.loaded /\ (config.test_mode \/ ~config.enforce_market_hours)) =>
        /\ ~Called("is_market_open")
        /\ ~Called("log_market_status")
        /\ pc = "off"
        /\ status = NoStatus
        /\ p_pc \in {"gate", "fetch", "publish", "done"}
        /\ (p_pc \in {"publish", "done"}) => Called("fetch_stock_prices")

\* test mode with enforcement on has reached its result through a fetch
C12_Witness ==
    /\ p_pc = "done"
    /\ config.loaded /\ config.test_mode /\ config.enforce_market_hours
    /\ Called("fetch_stock_prices")
    /\ result.statusCode = 200

\* C16: a producer invocation ends with status 500 only because of an
\* exception during setup (Config, credential).
C16_FailureOnlyFromSetup ==
    (p_pc = "done" /\ result.statusCode = 500) => ~config.loaded

\* C16 as amended: status 500 comes from an exception during setup, from the
\* ValueError of the next-open search inside status logging, or from an
\* exception of put_records, and carries its text; is_market_open and the
\* quote source never cause it.
C16_FailureSources ==
    (p_pc = "done") =>
        LET setup_failed == ~config.loaded /\ exc \in SetupErrors
            logging_failed ==
                /\ config.loaded
                /\ pc = "raised"
                /\ trace = <<"is_market_open", "log_market_status">>
                /\ exc = DayOutOfRange
            publish_failed ==
                /\ config.loaded
                /\ Called("put_records")
                /\ put_outcome.raises # ""
                /\ exc = put_outcome.raises
        IN  /\ (result.statusCode = 500) <=>
                   (setup_failed \/ logging_failed \/ publish_failed)
            /\ (result.statusCode = 500) => result = ErrorResult(exc)
            /\ result.statusCode \in {200, 500}

\* setup succeeded and the invocation still ended with status 500, raised
\* while the closed market's status was logged
C16_Witness ==
    /\ p_pc = "done"
    /\ config.loaded
    /\ Called("log_market_status")
    /\ result = ErrorResult(DayOutOfRange)

\* C17: when put_records raises, send_to_kinesis logs the error and raises
\* the same exception to its caller.
C17_PublishErrorIsReraised ==
    (Called("put_records") /\ put_outcome.raises # "") =>
        /\ exc = put_outcome.raises
        /\ send_to_kinesis(stock_data, put_outcome).logged = "error"

\* put_records raised and the handler's except clause holds that exception
C17_Witness ==
    /\ p_pc = "done"
    /\ Called("put_records")
    /\ put_outcome.raises = "Kinesis error"
    /\ exc = "Kinesis error"

\* the exchange succeeded and carries a current price greater than 0
ValidQuote(r) == r.kind = "ok" /\ r.data.c.tag = "num" /\ r.data.c.val > 0

RECURSIVE QuotedFrom(_, _, _)
QuotedFrom(symbols, answers, i) ==
    IF i > Len(symbols) THEN << >>
    ELSE (IF ValidQuote(answers[i])
          THEN << [symbol |-> symbols[i], price |-> answers[i].data.c.val] >>
          ELSE << >>)
         \o QuotedFrom(symbols, answers, i + 1)

\* C18: fetch_stock_prices returns, in the order of the requested symbols,
\* exactly one record for each symbol whose request succeeded with a current
\* price greater than 0, and no record for any other symbol.
C18_OneRecordPerValidQuote ==
    Called("fetch_stock_prices") =>
        [ i \in 1..Len(stock_data) |->
            [symbol |-> stock_data[i].symbol, price |-> stock_data[i].price] ]
          = QuotedFrom(config.stock_symbols, responses, 1)

\* C19: when the gate lets the invocation proceed and no symbol yields a
\* quote, the result is status 200 with records_processed 0 and the stream
\* publisher is never called.
C19_NoQuotesIsZeroCountSuccess ==
    (p_pc = "done" /\ Called("fetch_stock_prices") /\ stock_data = << >>) =>
        /\ result.statusCode = 200
        /\ result.body.records_processed = 0
        /\ ~Called("put_records")
        /\ kinesis_records = << >>

\* two symbols were requested, none yielded a quote, and the handler is done
C19_Witness ==
    /\ p_pc = "done"
    /\ Len(config.stock_symbols) = 2
    /\ Called("fetch_stock_prices")
    /\ stock_data = << >>
    /\ result.statusCode = 200

\* C20: when put_records answers with FailedRecordCount > 0, send_to_kinesis
\* logs a warning and does not raise, and the result is status 200 with
\* records_processed equal to the number of quotes fetched.
C20_PartialFailureIsSuccess ==
    (/\ Called("put_records")
     /\ put_outcome.raises = ""
     /\ put_outcome.FailedRecordCount.tag = "num"
     /\ put_outcome.FailedRecordCount.val > 0) =>
        /\ exc = ""
        /\ send_to_kinesis(stock_data, put_outcome).logged = "warning"
        /\ result.statusCode = 200
        /\ result.body.records_processed = Len(stock_data)
        /\ Len(stock_data) > 0

\* every record of a two-record batch was rejected and the result is 200
C20_Witness ==
    /\ p_pc = "done"
    /\ Len(stock_data) = 2
    /\ put_outcome = PutOutcome("", Num(2))
    /\ result.statusCode = 200

\* ------------------------------------------------------------------------
\* Properties of the controller
\* ------------------------------------------------------------------------

\* invocation i has returned after list_executions answered
Decided(i) == c_pc[i] = "done" /\ c_exc[i] \notin {ArnNotSet, ListFailed}

\* the operation and the target of every call of invocation i, in order
Issued(i) == [k \in 1..Len(c_calls[i]) |-> <<c_calls[i][k].op, c_calls[i][k].name>>]

\* one stop call for each listed execution, in the order of the listing
StopEachListed(i) == [k \in 1..Len(c_listed[i]) |-> <<"stop", c_listed[i][k]>>]

\* C13: the controller's action is a function of (market open, at least one
\* running execution) only: open and none running starts one execution;
\* closed and some running stops every listed running execution; open and
\* running issues no start or stop; closed and none running issues none.
C13_ActionFollowsDecisionTable ==
    \A i \in Invocations :
        Decided(i) =>
            LET open == c_status[i].is_open
                some == Len(c_listed[i]) > 0
            IN  /\ (open /\ ~some) =>
                       /\ Len(c_calls[i]) = 1
                       /\ c_calls[i][1].op = "start"
                       /\ (c_exc[i] = "") =>
                              c_result[i].body.action_taken = "started"
                /\ (~open /\ some) =>
                       /\ Issued(i) = StopEachListed(i)
                       /\ c_result[i].body.action_taken = "stopped"
                /\ (open /\ some) =>
                       /\ c_calls[i] = << >>
                       /\ c_result[i].body.action_taken = "continued"
                /\ (~open /\ ~some) =>
                       /\ c_calls[i] = << >>
                       /\ c_result[i].body.action_taken = "idle"

\* one invocation has started the workflow and the other, listing it during
\* open hours, has left it alone
C13_Witness ==
    /\ c_pc = [i \in Invocations |-> "done"]
    /\ c_result["A"].statusCode = 200
    /\ c_result["A"].body.action_taken = "started"
    /\ c_result["B"].statusCode = 200
    /\ c_result["B"].body.action_taken = "continued"
    /\ c_calls["B"] = << >>

\* C14: in a single controller invocation at most one workflow-control
\* action is issued: at most one start call or at most one stop call, never
\* both and never more than one, whatever the number of running executions.
C14_AtMostOneCall ==
    \A i \in Invocations : Len(c_calls[i]) <= 1

\* C14 as amended: a single invocation issues either at most one start call
\* and no stop call, or no start call and exactly one stop call for each
\* listed running execution; never a start together with a stop.
C14_OneStartOrOneStopPerListed ==
    \A i \in Invocations :
        LET starts == { k \in 1..Len(c_calls[i]) : c_calls[i][k].op = "start" }
            stops  == { k \in 1..Len(c_calls[i]) : c_calls[i][k].op = "stop" }
        IN  /\ starts = {} \/ stops = {}
            /\ Cardinality(starts) <= 1
            /\ (stops # {}) =>
                   /\ Len(c_calls[i]) <= Len(c_listed[i])
                   /\ \A k \in stops : c_calls[i][k].name = c_listed[i][k]
            /\ (Decided(i) /\ ~c_status[i].is_open) =>
                   Cardinality(stops) = Len(c_listed[i])

\* an invocation found two executions running in a closed market and has
\* issued a stop call for each
C14_Witness ==
    \E i \in Invocations :
        /\ c_pc[i] = "done"
        /\ Len(c_listed[i]) = 2
        /\ Issued(i) = StopEachListed(i)

\* every call of every invocation was carried out and none ended in failure
NoFailures ==
    \A i \in Invocations :
        /\ c_exc[i] = ""
        /\ \A k \in 1..Len(c_calls[i]) : c_calls[i][k].ok

\* what two invocations leave running when one runs after the other with
\* every call carried out
SequentialOutcome(open, before, after) ==
    IF open
    THEN IF before = {} THEN Cardinality(after) = 1 ELSE after = before
    ELSE after = {}

\* C15: for any two overlapping controller invocations evaluated against
\* the same market state, every interleaving of their list/start/stop steps
\* leaves the same set of running executions as running the two one after
\* the other; in particular, starting from zero running executions while
\* the market is open, no interleaving leaves more than one running.
C15_OverlapEqualsSequential ==
    (/\ \A i \in Invocations : Decided(i)
     /\ c_status["A"].is_open = c_status["B"].is_open
     /\ NoFailures) =>
        /\ SequentialOutcome(c_status["A"].is_open, running_before, running)
        /\ (c_status["A"].is_open /\ running_before = {}) => Cardinality(running) <= 1

\* C21: a configuration error (Config construction fails, or no API key is
\* found in the secret store or the environment) is fatal for the
\* invocation: the producer returns status 500 carrying the error text and
\* performs no market-hours check, no quote fetch and no publish, with no
\* retry inside the invocation.
C21_ConfigErrorIsFatal ==
    (p_pc # "start" /\ ~config.loaded) =>
        /\ p_pc = "done"
        /\ exc \in SetupErrors
        /\ result = [ statusCode |-> 500,
                      body |-> [error |-> exc, timestamp |-> UtcNowIso] ]
        /\ trace = << >>
        /\ status = NoStatus /\ pc = "off"
        /\ responses = << >> /\ stock_data = << >>
        /\ put_outcome = NoPut /\ kinesis_records = << >>
        /\ ~ENABLED NextProducer

\* the credential was not found and the invocation has ended
C21_Witness ==
    /\ p_pc = "done"
    /\ ~config.loaded
    /\ exc = "API key not found in Secrets Manager or environment variables"
    /\ result.statusCode = 500

\* ------------------------------------------------------------------------
\* Properties of the configuration
\* ------------------------------------------------------------------------

\* the sources load_api_key consulted
Consulted == { consulted[i] : i \in 1..Len(consulted) }

\* the secret store answered the request with a non-empty value
StoreYields ==
    /\ secret_store.kind \notin {"init_error", "client_error"}
    /\ Truthy(get_secret(secret_store))

FileMember(i) ==
    IF config_file.kind = "object" THEN config_file.members[ConfigKeys[i].attr] ELSE Absent

\* the conversion load_config applies to the value chosen for the i-th key
Converted(i, value) ==
    CASE ConfigKeys[i].kind = "list" ->
             IF value.tag = "str" THEN List(ParseSymbols(value.val)) ELSE value
      [] ConfigKeys[i].kind = "bool" -> ToBool(value)
      [] ConfigKeys[i].kind = "int" -> Num(ParseInt(value).val)
      [] OTHER -> value

\* C23: a configuration key set neither in the environment nor in the
\* config file takes its documented default; in particular stock_symbols
\* is the eight default symbols, enforce_market_hours True, test_mode False
\* and use_secrets_manager True.
C23_DefaultWhenUnset ==
    cfg_pc = "loaded" =>
        \A i \in 1..Len(ConfigKeys) :
            (environ[ConfigKeys[i].env_var] = Absent /\ FileMember(i) = Absent) =>
                cfg[ConfigKeys[i].attr] = ConfigKeys[i].default

\* C24: for every configuration key the value is chosen with priority
\* environment variable over config-file value over default: a variable
\* that is set always wins, a file value is used only when the variable is
\* unset, and the default only when both are absent.
C24_EnvOverFileOverDefault ==
    cfg_pc = "loaded" =>
        \A i \in 1..Len(ConfigKeys) :
            cfg[ConfigKeys[i].attr] =
                Converted(i, IF environ[ConfigKeys[i].env_var] # Absent
                             THEN environ[ConfigKeys[i].env_var]
                             ELSE IF FileMember(i) \notin {Absent, Null}
                                  THEN FileMember(i)
                                  ELSE ConfigKeys[i].default)

\* ------------------------------------------------------------------------
\* Properties of a MarketHours object over several calls
\* ------------------------------------------------------------------------

\* the calls completed so far, the one that has just ended included
Completed ==
    IF pc \in {"classified", "returned", "raised"}
    THEN Append(calls, [ arg |-> t, outcome |-> pc, status |-> status,
                         next_open |-> next_open ])
    ELSE calls

\* two completed calls of the same method for the same instant gave the
\* same result
SameResultForSameInstant ==
    \A i \in 1..Len(Completed) : \A j \in 1..Len(Completed) :
        /\ Completed[i].arg = Completed[j].arg
        /\ (Completed[i].outcome = "classified") = (Completed[j].outcome = "classified")
        => /\ Completed[i].outcome = Completed[j].outcome
           /\ Completed[i].status = Completed[j].status
           /\ Completed[i].next_open = Completed[j].next_open

Results ==
    (IF p_pc = "done" THEN {result} ELSE {})
        \cup { c_result[i] : i \in { j \in Invocations : c_pc[j] = "done" } }

\* the fields of the body on each path
SkippedFields == {"message", "market_status", "timestamp"}
ProcessedFields == {"message", "records_processed", "test_mode", "timestamp"}
FailureFields == {"error", "timestamp"}
ControllerFields ==
    {"trigger_source", "market_open", "market_reason", "running_executions",
     "action_taken", "timestamp"}

\* C26 as stated: every result of the producer and of the controller has a
\* status code and a body with at least an outcome message, the count of
\* records processed, whether market-hours enforcement applied, and an
\* evaluation timestamp, on the skipped, processed and failure paths alike.
C26_BodyHasFourFields ==
    \A r \in Results :
        /\ r.statusCode \in {200, 500}
        /\ {"message", "records_processed", "timestamp"} \subseteq DOMAIN r.body
        /\ {"market_status", "test_mode"} \cap DOMAIN r.body # {}

\* C26 amended: every result has a status code and a body with an
\* evaluation timestamp; only the producer's processed path reports a
\* message with the record count (and test_mode), its skipped path a message
\* and market_status, every failure path the error text only, and the
\* controller's success path its own six fields.
C26_BodyFieldsPerPath ==
    /\ \A r \in Results :
           /\ r.statusCode \in {200, 500}
           /\ "timestamp" \in DOMAIN r.body
           /\ r.body.timestamp = UtcNowIso
           /\ r.statusCode = 500 <=> DOMAIN r.body = FailureFields
    /\ p_pc = "done" =>
           /\ exc # "" <=> result.statusCode = 500
           /\ DOMAIN result.body \in {SkippedFields, ProcessedFields, FailureFields}
           /\ DOMAIN result.body = SkippedFields <=>
                  /\ exc = ""
                  /\ GateApplies(config)
                  /\ ~status.is_open
           /\ DOMAIN result.body = ProcessedFields =>
                  /\ result.body.records_processed = Len(stock_data)
                  /\ result.body.test_mode = config.test_mode
    /\ \A i \in Invocations :
           c_pc[i] = "done" =>
               /\ c_exc[i] # "" <=> c_result[i].statusCode = 500
               /\ DOMAIN c_result[i].body \in {ControllerFields, FailureFields}

C26_Witness ==
    /\ p_pc = "done"
    /\ result.statusCode = 200
    /\ DOMAIN result.body = SkippedFields
    /\ "records_processed" \notin DOMAIN result.body

\* ------------------------------------------------------------------------
\* Properties of naive timestamps
\* ------------------------------------------------------------------------

\* the America/New_York datetime that shows the wall-clock fields of dt: the
\* offset under which converting to the market timezone changes nothing
NewYorkAware(dt) ==
    LET offs == { o \in {EST, EDT} :
                    AsMarketTimezone(DateTime(dt.date, dt.minute, Aware(o)))
                        = DateTime(dt.date, dt.minute, Aware(o)) }
    IN  DateTime(dt.date, dt.minute, Aware(CHOOSE o \in offs : TRUE))

\* the dates of d's month from which a search starting at datetime dt may
\* still return: dt's own date before the close, and every later date
SearchDates(dt) ==
    { d \in { Date(dt.date.year, dt.date.month, n) :
                n \in 1..DaysInMonth(dt.date.year, dt.date.month) } :
        \/ d.day > dt.date.day
        \/ d = dt.date /\ dt.minute < CloseMinute }

\* C27: a timestamp without timezone is read as being in the market
\* timezone already: is_market_open and get_next_market_open give for a
\* naive timestamp the result they give for the same wall-clock fields
\* localized to America/New_York, with no shift applied.
C27_NaiveIsMarketTime ==
    (t.tz.kind = "naive" /\ pc \in {"classified", "returned", "raised"}) =>
        /\ MarketView = NewYorkAware(t)
        /\ pc = "classified" =>
               /\ status = ExpectedStatus(t)
               /\ status = is_market_open(NewYorkAware(t))
        /\ pc = "returned" =>
               /\ next_open.date \in SearchDates(t)
               /\ TradingDate(next_open.date)
               /\ \A d \in SearchDates(t) : TradingDate(d) => d.day >= next_open.date.day
               /\ next_open = NewYorkAware(DateTime(next_open.date, OpenMinute, Naive))
        /\ pc = "raised" => \A d \in SearchDates(t) : ~TradingDate(d)

C27_Witness ==
    /\ t.tz.kind = "naive"
    /\ pc = "classified"
    /\ t.minute = OpenMinute
    /\ t.date = Date(2025, 7, 3)
    /\ status.is_open

\* ------------------------------------------------------------------------
\* Properties of a controller invocation that runs alone
\* ------------------------------------------------------------------------

\* invocation i has returned without any failure: no exception caught, and
\* every call it issued was carried out
CompletedClean(i) ==
    /\ c_pc[i] = "done"
    /\ c_exc[i] = ""
    /\ \A k \in 1..Len(c_calls[i]) : c_calls[i][k].ok

\* invocation i listed the executions the run began with, so no other
\* invocation had acted before it
ListedFirst(i) == c_listed[i] = ListExecutions(running_before)

\* the executions invocation i leaves running when nothing else acts
LeftRunning(i) ==
    (running_before \cup { c_calls[i][k].name :
                             k \in { n \in 1..Len(c_calls[i]) : c_calls[i][n].op = "start" } })
        \ { c_calls[i][k].name :
              k \in { n \in 1..Len(c_calls[i]) : c_calls[i][n].op = "stop" } }

\* C28: after a controller invocation that runs alone and meets no
\* collaborator failure the workflow state agrees with the market: open,
\* at least one execution is running (one was started if and only if none
\* was running before); closed, none of the executions listed as running
\* is still running; a second invocation under the same market state then
\* issues no start and no stop.
C28_AloneReachesAgreement ==
    \A i \in Invocations : \A j \in Invocations \ {i} :
        /\ (CompletedClean(i) /\ c_pc[j] \in {"start", "list"}) =>
               /\ c_status[i].is_open =>
                      /\ running # {}
                      /\ (\E k \in 1..Len(c_calls[i]) : c_calls[i][k].op = "start")
                             <=> running_before = {}
                      /\ Len(c_calls[i]) = (IF running_before = {} THEN 1 ELSE 0)
               /\ ~c_status[i].is_open =>
                      /\ \A k \in 1..Len(c_listed[i]) : c_listed[i][k] \notin running
                      /\ running = {}
        /\ (/\ CompletedClean(i) /\ ListedFirst(i)
            /\ c_pc[j] = "done" /\ Decided(j)
            /\ c_listed[j] = ListExecutions(LeftRunning(i))
            /\ c_status[j].is_open = c_status[i].is_open) =>
               /\ c_calls[j] = << >>
               /\ c_exc[j] = ""
               /\ c_result[j].body.action_taken \in {"continued", "idle"}
               /\ running = LeftRunning(i)

\* the first invocation stopped both running executions while the market
\* was closed, the second one then found nothing to do
C28_Witness ==
    /\ CompletedClean("A")
    /\ ~c_status["A"].is_open
    /\ Len(c_calls["A"]) = 2
    /\ c_pc["B"] = "done"
    /\ ~c_status["B"].is_open
    /\ c_listed["B"] = << >>
    /\ c_calls["B"] = << >>
    /\ c_exc["B"] = ""
    /\ c_result["B"].body.action_taken = "idle"
    /\ running = {}

\* ------------------------------------------------------------------------
\* Properties of the handlers' failure paths
\* ------------------------------------------------------------------------

\* the steps of the producer other than those that consult the Oracle
ProducerStepAside ==
    \/ ProducerSetup
    \/ ProducerSetupFails
    \/ ProducerBypassGate
    \/ ProducerLogReturns
    \/ ProducerLogRaises
    \/ ProducerSkip
    \/ ProducerProceed
    \/ ProducerFetch
    \/ ProducerPublish
    \/ ProducerNoData

\* the steps of controller invocation i after its Oracle call
CtlStepAfterOracle(i) ==
    \/ CtlArnMissing(i)
    \/ CtlList(i)
    \/ CtlListFails(i)
    \/ CtlStart(i)
    \/ CtlDecide(i)
    \/ CtlStopOne(i)

\* a handler that has not returned is either about to consult the Oracle
\* (which always answers or raises) or has a step to take
HandlersGoOn ==
    /\ p_pc \notin {"off", "done"} =>
           \/ p_pc = "gate" /\ GateApplies(config)
           \/ p_pc = "log"
           \/ p_pc = "log_next" /\ pc \in {"idle", "search"}
           \/ ENABLED ProducerStepAside
    /\ \A i \in Invocations :
           c_pc[i] \notin {"off", "done"} =>
               \/ c_pc[i] = "start" /\ state_machine_arn # ""
               \/ ENABLED CtlStepAfterOracle(i)

\* an exception raised in a handler has ended it with a 500 result that
\* carries its text, and every result is a 200 or a 500
FailuresAreResults ==
    /\ exc # "" => p_pc = "done"
    /\ p_pc = "done" =>
           /\ result.statusCode \in {200, 500}
           /\ result.statusCode = 500 <=> exc # ""
           /\ exc # "" => result.body.error = exc
    /\ \A i \in Invocations :
           /\ c_exc[i] # "" => c_pc[i] = "done"
           /\ c_pc[i] = "done" =>
                  /\ c_result[i].statusCode \in {200, 500}
                  /\ c_result[i].statusCode = 500 <=> c_exc[i] # ""
                  /\ c_exc[i] # "" => c_result[i].body.error = c_exc[i]
                  /\ c_exc[i] \in {ArnNotSet, ListFailed} => c_calls[i] = << >>

\* C29: both handlers always return a result whose statusCode is 200 or 500
\* and let no exception reach the trigger, whichever step fails; a
\* controller that fails before its decision step issues no start and no
\* stop.
C29_FailuresBecomeResults ==
    /\ HandlersGoOn
    /\ FailuresAreResults

\* the producer has caught the exception of a failed publish
C29_Witness ==
    /\ p_pc = "done"
    /\ Called("put_records")
    /\ exc # ""
    /\ result.statusCode = 500

\* ------------------------------------------------------------------------
\* Properties of the controller's stop loop
\* ------------------------------------------------------------------------

\* C30: with the market closed, when stopping one running execution fails
\* the controller still attempts to stop every other listed execution and
\* still returns status 200 with action_taken 'stopped', even if some or
\* all of the executions are in fact still running.
C30_StopFailureIsSwallowed ==
    \A i \in Invocations :
        (/\ c_pc[i] = "done"
         /\ \E k \in 1..Len(c_calls[i]) : c_calls[i][k].op = "stop" /\ ~c_calls[i][k].ok) =>
            /\ ~c_status[i].is_open
            /\ c_listed[i] # << >>
            /\ Issued(i) = StopEachListed(i)
            /\ c_exc[i] = ""
            /\ c_result[i].statusCode = 200
            /\ c_result[i].body.action_taken = "stopped"
            /\ c_result[i].body.running_executions = Len(c_listed[i])

\* the first of two stop calls failed, the second was made all the same, and
\* an execution is still running when the invocation reports 'stopped'
C30_Witness ==
    /\ c_pc["A"] = "done"
    /\ c_pc["B"] = "start"
    /\ Len(c_calls["A"]) = 2
    /\ ~c_calls["A"][1].ok
    /\ c_calls["A"][2].op = "stop"
    /\ c_calls["A"][2].ok
    /\ running = {c_calls["A"][1].name}
    /\ c_result["A"].statusCode = 200
    /\ c_result["A"].body.action_taken = "stopped"

====
